---- MODULE Spec2Model ----
(***************************************************************************)
(* Model of the panos-upgrade orchestrator: the file-backed job queue      *)
(* (cli.py submit, daemon.py scanner and completion handler), the cancel   *)
(* command intake, the worker pool and the per-device upgrade state        *)
(* machine of upgrade_manager.py.                                          *)
(*                                                                         *)
(* DeviceStatus is modelled with the attributes upgrade_manager.py reads   *)
(* and writes (starting_version and skipped_versions included); the job    *)
(* results of the firewall client are modelled as upgrade_manager.py       *)
(* consumes them (success / not success).                                  *)
(***************************************************************************)
EXTENDS Integers, Sequences, FiniteSets, TLC

\* ---------------------------------------------------------------- bounds
MaxJobs == 2        \* job files ever written to queue/pending
MaxCancels == 1     \* cancel command files ever dropped
MaxStarts == 2      \* daemon starts (the second one is a restart)
DownloadRetryAttempts == 2  \* config download_retry_attempts
MaxReplays == 1     \* times a job file is put into queue/pending again by hand
PoolQueueSize == 1  \* workers.queue_size of the small-queue configuration
MaxWriters == 2     \* concurrent atomic_write_json calls on one file
PollTimeout == 3    \* the timeout argument of wait_for_download, in poll intervals
MaxCount == 2       \* routes and ARP entries a device reports
MaxClock == 12      \* seconds of the clock the rate limiter reads

\* ------------------------------------------------------ fixed small sets
Serials == {"s1", "s2"}
Submitters == {"cli1", "cli2"}
Workers == {"w1", "w2"}
JobIds == 1..MaxJobs
CmdIds == 1..MaxCancels
Versions == {"v1", "v2", "v3"}
InitialVersions == {"v1", "v3"}

\* devices/inventory.json: serials that have a management address
Inventory == {"s1", "s2"}

\* HA local_state each device reports
HaLocalState == [s \in Serials |-> IF s = "s1" THEN "active" ELSE "passive"]

\* config/upgrade_paths.json
UpgradePathsFile == [v \in {"v1", "v2"} |->
                       IF v = "v1" THEN <<"v2", "v3">> ELSE <<"v3">>]

\* config workers.queue_size
QueueSize == 1000

\* config panorama.rate_limit, requests per minute
RateLimit == 10

JOB_TYPE_STANDALONE == "standalone"
JOB_TYPE_HA_PAIR == "ha_pair"
JOB_TYPE_DOWNLOAD_ONLY == "download_only"

\* ------------------------------------------------------------- variables
VARIABLES
  queue,          \* queue/<dir>: the job file names in each of the four directories
  jobData,        \* content of job file <job_id>.json
  sub,            \* each CLI submit process: position and the job it builds
  incoming, processed, cmdData, \* commands/incoming, commands/processed
  running, starts,              \* UpgradeDaemon._running, number of starts
  cancelledJobs, cancelledDevices, softwareCheckDone, \* UpgradeManager sets
  workQueue,      \* WorkerPool.work_queue
  task,           \* each worker thread: the work item it runs and its position
  statusFile,     \* status/devices/<serial>.json
  written,        \* the DeviceStatus writes of the latest step, in order
  devVersion, devImages, \* the appliances: live sw_version, downloaded images
  invVersion,     \* devices/inventory.json: current_version recorded at discovery
  preFlightFiles, \* validation/pre_flight/<serial>_<timestamp>.json
  scanTodo,       \* files of the startup glob of commands/incoming still to process
  events,         \* on_created events the observer thread has not handled yet
  cmdThread,      \* the two threads that call process_command: position, file
  handled,        \* calls of _handle_cancel_command made for each command file
  submitResults,  \* what WorkerPool.submit returned to the scanner for its latest job
  inode, linked,  \* one directory: content of each inode, the inode the file name links to
  wr, rd,         \* the atomic_write_json calls and the read_json call on that file
  poll,           \* one wait_for_download / wait_for_install call
  cmp,            \* one pre-flight snapshot and its post-flight comparison
  bucket,         \* the RateLimiter: tokens, last_update, its lock, and the clock
  caller,         \* each thread that calls RateLimiter.acquire: position, result
  oldCmds,        \* ghost: the command files already processed when each job was submitted
  plan            \* what the operators will do in this run (chosen at the start)

vars == <<queue, jobData, sub,
          incoming, processed, cmdData, running, starts,
          cancelledJobs, cancelledDevices, softwareCheckDone,
          workQueue, task, statusFile, written, devVersion, devImages, invVersion,
          preFlightFiles, scanTodo, events, cmdThread, handled, submitResults,
          inode, linked, wr, rd, poll, cmp, bucket, caller, oldCmds, plan>>

queueVars == <<queue, jobData>>
cmdVars == <<incoming, processed, cmdData>>
cancelVars == <<cancelledJobs, cancelledDevices>>
devVars == <<devVersion, devImages>>
intakeVars == <<scanTodo, events, cmdThread, handled>>
fileVars == <<inode, linked, wr, rd>>
auxVars == <<cmp, bucket, caller>>
sideVars == <<fileVars, poll, auxVars, oldCmds>>
envVars == <<invVersion, plan, preFlightFiles, intakeVars, submitResults, sideVars>>

\* ------------------------------------------------------------ job files
NoJob == [type |-> "none", devices |-> <<>>, dry_run |-> FALSE,
          status |-> "", completed_at |-> FALSE]

NewJob(type, devices, dry) ==
  [type |-> type, devices |-> devices, dry_run |-> dry,
   status |-> "", completed_at |-> FALSE]

Created == {j \in JobIds : jobData[j].type # "none"}

SeqSet(q) == {q[i] : i \in 1..Len(q)}

\* ------------------------------------------------------- device status
UpgradeStatusPending == "pending"
InProgressStatuses == {"pending", "validating", "downloading", "installing", "rebooting"}
TerminalStatuses == {"complete", "failed", "cancelled", "skipped"}

\* DeviceStatus as built by _init_device_status
InitDeviceStatus(s) ==
  [serial |-> s, exists |-> TRUE,
   current_version |-> "", starting_version |-> "", target_version |-> "",
   upgrade_path |-> <<>>, current_path_index |-> 0,
   upgrade_status |-> UpgradeStatusPending, progress |-> 0, current_phase |-> "",
   downloaded_versions |-> <<>>, skipped_versions |-> <<>>,
   ready_for_install |-> FALSE, errors |-> <<>>]

NoStatusFile(s) == [InitDeviceStatus(s) EXCEPT !.exists = FALSE, !.upgrade_status = ""]

\* DeviceStatus.add_error: appends an ErrorRecord (its phase is kept)
AddError(ds, phase) == [ds EXCEPT !.errors = Append(@, phase)]

\* _load_existing_device_status: the DeviceStatus to resume, or "none"
HasExistingStatus(s) ==
  /\ statusFile[s].exists
  /\ statusFile[s].upgrade_status \in InProgressStatuses
  /\ statusFile[s].starting_version # ""

\* the DeviceStatus that _load_existing_device_status builds from the saved
\* data: the fields it passes to the constructor are copied, errors is not
\* passed and takes its default
ReconstructDeviceStatus(data) == [data EXCEPT !.errors = <<>>]

\* a reload that forgets the stored starting_version
LoadWithoutStartingVersion(s) ==
  [statusFile[s] EXCEPT !.errors = <<>>, !.starting_version = ""]

LoadExistingDeviceStatus(s) ==
  ReconstructDeviceStatus(statusFile[s])

\* UpgradeManager.get_upgrade_path
HasUpgradePath(v) == v \in DOMAIN UpgradePathsFile
GetUpgradePath(v) == UpgradePathsFile[v]

\* _is_cancelled
IsCancelled(j, s) == j \in cancelledJobs \/ s \in cancelledDevices

\* list.index(x) + 1 of Python, for x in the list
IndexOf(q, x) == CHOOSE i \in 1..Len(q) : q[i] = x /\ \A k \in 1..(i-1) : q[k] # x

\* ------------------------------------------------------ queue directories
QueueDirs == {"pending", "active", "completed", "cancelled"}

\* a copy to the destination that leaves the source file in place
CopyJob(q, j, from, to) ==
  [q EXCEPT ![to] = @ \cup {j}]

\* Path.rename(from/<j>.json -> to/<j>.json): one atomic rename(2)
RenameJob(q, j, from, to) ==
  [q EXCEPT ![from] = @ \ {j}, ![to] = @ \cup {j}]

\* the non-terminal job files that list serial s among their devices
JobsReferencing(s) ==
  {j \in queue["pending"] \cup queue["active"] : s \in SeqSet(jobData[j].devices)}

\* _check_for_existing_job: raises (TRUE) when a pending or active job lists s
CheckForExistingJobRaises(s) == JobsReferencing(s) # {}

\* ------------------------------------------------------------ CLI submit
IdleSub == [pc |-> "idle", type |-> "none", devices |-> <<>>, dry_run |-> FALSE]

\* the jobs `panos-upgrade job submit` can be asked for: <<type, devices, dry_run>>
SubmitRequests ==
  {<<JOB_TYPE_STANDALONE, <<s>>, dry>> : s \in Serials, dry \in BOOLEAN}
    \cup {<<JOB_TYPE_DOWNLOAD_ONLY, <<s>>, dry>> : s \in Serials, dry \in BOOLEAN}
    \cup {<<JOB_TYPE_HA_PAIR, <<pr[1], pr[2]>>, dry>> :
             pr \in {x \in Serials \X Serials : x[1] # x[2]}, dry \in BOOLEAN}

\* the progress values a download job shows on successive polls (rising, or
\* falling back in between)
ProgressReports == {<<50, 100>>, <<50, 20, 100>>}

\* a device whose reported percentage only rises
SteadyReports == {<<50, 100>>}

\* The operators' plans.  A run follows one of them:
\*  - concurrent submissions of real standalone upgrades of one device,
\*    no cancel, no restart;
\*  - two dry-run standalone upgrades of any devices, no cancel, no restart;
\*  - one job of any kind and cancel commands;
\*  - one job of any kind and daemon restarts.
\* reports: the progress reports the devices' download jobs give in the run.
\* retry_attempts: the configured download_retry_attempts.
\* inventory: the serials devices/inventory.json lists with a management address.
Plans ==
  { [inventory |-> Inventory, retry_attempts |-> 1, jobs |-> MaxJobs, cancels |-> 0, starts |-> 1, reports |-> SteadyReports, queue_size |-> QueueSize,
     requests |-> {<<JOB_TYPE_STANDALONE, <<"s1">>, FALSE>>}],
    [inventory |-> Inventory, retry_attempts |-> 1, jobs |-> 2, cancels |-> 0, starts |-> 1, reports |-> SteadyReports, queue_size |-> QueueSize,
     requests |-> {r \in SubmitRequests : r[1] = JOB_TYPE_STANDALONE /\ r[3]}],
    [inventory |-> Inventory, retry_attempts |-> DownloadRetryAttempts, jobs |-> 1, cancels |-> MaxCancels, starts |-> 1, reports |-> ProgressReports, queue_size |-> QueueSize,
     requests |-> SubmitRequests],
    [inventory |-> Inventory, retry_attempts |-> DownloadRetryAttempts, jobs |-> 1, cancels |-> 0, starts |-> MaxStarts, reports |-> ProgressReports, queue_size |-> QueueSize,
     requests |-> SubmitRequests] }

NumChecked == Cardinality({p \in Submitters : sub[p].pc = "checked"})

\* submit, first half: the existing-job check for every device of the request
SubmitCheck(p) ==
  /\ sub[p].pc = "idle"
  /\ Cardinality(Created) + NumChecked < plan.jobs
  /\ \E req \in plan.requests :
       /\ \A s \in SeqSet(req[2]) : ~CheckForExistingJobRaises(s)
       /\ sub' = [sub EXCEPT ![p] = [pc |-> "checked", type |-> req[1],
                                     devices |-> req[2], dry_run |-> req[3]]]
  /\ written' = <<>>
  /\ UNCHANGED <<envVars, queueVars, cmdVars, running, starts, cancelVars, softwareCheckDone,
                 workQueue, task, statusFile, devVars>>

\* uuid4 job id: a name no job file has yet
FreshJobId == CHOOSE j \in JobIds : j \notin Created /\ \A k \in JobIds : k < j => k \in Created

\* submit, second half: atomic_write_json(queue/pending/<job_id>.json)
SubmitWrite(p) ==
  /\ sub[p].pc = "checked"
  /\ LET j == FreshJobId IN
       /\ jobData' = [jobData EXCEPT ![j] = NewJob(sub[p].type, sub[p].devices, sub[p].dry_run)]
       /\ queue' = [queue EXCEPT !["pending"] = @ \cup {j}]
       /\ oldCmds' = [oldCmds EXCEPT ![j] = processed]
  /\ sub' = [sub EXCEPT ![p] = IdleSub]
  /\ written' = <<>>
  /\ UNCHANGED <<invVersion, plan, preFlightFiles, intakeVars, submitResults, fileVars, poll,
                 auxVars, cmdVars, running, starts, cancelVars, softwareCheckDone,
                 workQueue, task, statusFile, devVars>>

\* ------------------------------------------------------ cancel commands
NoCmd == [job_id |-> 0, device_serial |-> ""]
CmdsDropped == incoming \cup processed

\* an operator drops a cancel_upgrade command file naming a job or a device
DropCancel ==
  /\ Cardinality(CmdsDropped) < plan.cancels
  /\ LET c == CHOOSE c \in CmdIds : c \notin CmdsDropped IN
       /\ \E tgt \in {[job_id |-> j, device_serial |-> ""] : j \in Created}
                     \cup {[job_id |-> 0, device_serial |-> s] : s \in Serials} :
            cmdData' = [cmdData EXCEPT ![c] = tgt]
       /\ incoming' = incoming \cup {c}
  /\ written' = <<>>
  /\ UNCHANGED <<envVars, processed, queueVars, sub, running, starts, cancelVars,
                 softwareCheckDone, workQueue, task, statusFile, devVars>>

\* UpgradeManager.cancel_upgrade applied to a set of command files
CancelledJobsAfter(cj, cmds) == cj \cup {cmdData[c].job_id : c \in {x \in cmds : cmdData[x].job_id # 0}}
CancelledDevicesAfter(cd, cmds) ==
  cd \cup {cmdData[c].device_serial : c \in {x \in cmds : cmdData[x].device_serial # ""}}

\* process_command for one new file (CommandQueueHandler.on_created)
ProcessCommand(c) ==
  /\ running
  /\ c \in incoming
  /\ cancelledJobs' = CancelledJobsAfter(cancelledJobs, {c})
  /\ cancelledDevices' = CancelledDevicesAfter(cancelledDevices, {c})
  /\ incoming' = incoming \ {c}
  /\ processed' = processed \cup {c}
  /\ written' = <<>>
  /\ UNCHANGED <<envVars, cmdData, queueVars, sub, running, starts, softwareCheckDone,
                 workQueue, task, statusFile, devVars>>

\* ------------------------------------------------------------ the daemon
IdleTask ==
  [pc |-> "idle", job |-> 0, func |-> "", serial |-> "", dry_run |-> FALSE,
   ds |-> NoStatusFile(""), idx |-> 0, success |-> FALSE, sawCancel |-> FALSE,
   preflight |-> "", postflight |-> "",
   cmds |-> <<>>, primary |-> "", secondary |-> "", passive |-> "", active |-> "",
   member |-> "", target |-> "", activeVersion |-> "", passiveResult |-> "",
   todo |-> <<>>, resumedFrom |-> ""]

\* a dispatcher that submits the first device of the job once per worker
WorkItemsPerWorker(j) ==
  [i \in 1..Cardinality(Workers) |->
     [job |-> j, func |-> "upgrade_device", serials |-> <<jobData[j].devices[1]>>,
      dry_run |-> jobData[j].dry_run]]

\* WorkItem of WorkerPool.submit for job j
WorkItemsOf(j) ==
  LET jd == jobData[j] IN
  IF jd.type = JOB_TYPE_STANDALONE
    THEN [i \in 1..Len(jd.devices) |->
            [job |-> j, func |-> "upgrade_device", serials |-> <<jd.devices[i]>>,
             dry_run |-> jd.dry_run]]
  ELSE IF jd.type = JOB_TYPE_HA_PAIR
    THEN IF Len(jd.devices) >= 2
           THEN <<[job |-> j, func |-> "upgrade_ha_pair",
                   serials |-> <<jd.devices[1], jd.devices[2]>>, dry_run |-> jd.dry_run]>>
           ELSE <<>>
  ELSE IF jd.type = JOB_TYPE_DOWNLOAD_ONLY
    THEN [i \in 1..Len(jd.devices) |->
            [job |-> j, func |-> "download_only_device", serials |-> <<jd.devices[i]>>,
             dry_run |-> jd.dry_run]]
  ELSE <<>>

\* WorkerPool.submit of a list of items: each is put unless the queue is full
\* a submit that always enqueues
SubmitUnbounded(wq, item) ==
  [queue |-> Append(wq, item), submitted |-> TRUE]

\* WorkerPool.submit: work_queue.put(work_item, block=False) on a
\* Queue(maxsize = max_queue_size); the queue afterwards and the value returned
WorkerPoolSubmit(wq, item) ==
  IF Len(wq) < plan.queue_size
    THEN [queue |-> Append(wq, item), submitted |-> TRUE]
    ELSE [queue |-> wq, submitted |-> FALSE]

\* the work queue after the scanner submitted items one after the other
RECURSIVE SubmitAll(_, _)
SubmitAll(wq, items) ==
  IF items = <<>> THEN wq
  ELSE SubmitAll(WorkerPoolSubmit(wq, Head(items)).queue, Tail(items))

\* the values these submit calls returned
RECURSIVE SubmitReturns(_, _)
SubmitReturns(wq, items) ==
  IF items = <<>> THEN <<>>
  ELSE LET r == WorkerPoolSubmit(wq, Head(items))
       IN <<r.submitted>> \o SubmitReturns(r.queue, Tail(items))

\* UpgradeDaemon.start: pool start, existing command files, scanner thread
DaemonStart ==
  /\ ~running
  /\ starts < plan.starts
  /\ running' = TRUE
  /\ starts' = starts + 1
  /\ cancelledJobs' = CancelledJobsAfter(cancelledJobs, incoming)
  /\ cancelledDevices' = CancelledDevicesAfter(cancelledDevices, incoming)
  /\ processed' = processed \cup incoming
  /\ incoming' = {}
  /\ written' = <<>>
  /\ UNCHANGED <<envVars, cmdData, queueVars, sub, softwareCheckDone, workQueue, task,
                 statusFile, devVars>>

\* the process ends (stop, or a crash): threads and in-memory state are gone
DaemonStop ==
  /\ running
  /\ starts < plan.starts
  /\ running' = FALSE
  /\ cancelledJobs' = {}
  /\ cancelledDevices' = {}
  /\ softwareCheckDone' = {}
  /\ workQueue' = <<>>
  /\ task' = [w \in Workers |-> IdleTask]
  /\ written' = <<>>
  /\ UNCHANGED <<envVars, cmdVars, queueVars, sub, starts, statusFile, devVars>>

\* _process_job_queue, one iteration of the loop over the pending files
ScanJob(j) ==
  /\ running
  /\ j \in queue["pending"]
  /\ queue' = RenameJob(queue, j, "pending", "active")
  /\ workQueue' = SubmitAll(workQueue, WorkItemsOf(j))
  /\ submitResults' = SubmitReturns(workQueue, WorkItemsOf(j))
  /\ written' = <<>>
  /\ UNCHANGED <<invVersion, sideVars, plan, preFlightFiles, intakeVars, jobData, cmdVars, sub, running, starts, cancelVars, softwareCheckDone,
                 task, statusFile, devVars>>

\* ------------------------------------------------------- worker threads
\* a get that leaves the item in the queue
QueuePeek(wq) == wq

\* work_queue.get: the queue once its first item has been handed out
QueueAfterGet(wq) == Tail(wq)

\* WorkerThread.run: take the next work item and call its work_func
WorkerTake(w) ==
  /\ running
  /\ task[w].pc = "idle"
  /\ workQueue # <<>>
  /\ LET it == Head(workQueue) IN
       task' = [task EXCEPT ![w] =
         [IdleTask EXCEPT
            !.pc = IF it.func = "upgrade_device" THEN "identify"
                   ELSE IF it.func = "upgrade_ha_pair" THEN "ha_init"
                   ELSE "do_identify",
            !.job = it.job, !.func = it.func, !.dry_run = it.dry_run,
            !.serial = it.serials[1],
            !.primary = it.serials[1],
            !.secondary = IF Len(it.serials) > 1 THEN it.serials[2] ELSE ""]]
  /\ workQueue' = QueueAfterGet(workQueue)
  /\ written' = <<>>
  /\ UNCHANGED <<envVars, queueVars, cmdVars, sub, running, starts, cancelVars, softwareCheckDone,
                 statusFile, devVars>>

\* _execute_upgrade_with_completion: the directory the job file is moved to
DestDir(success, j) ==
  IF success THEN "completed"
  ELSE IF j \in cancelledJobs THEN "cancelled" ELSE "completed"

\* _execute_upgrade_with_completion after upgrade_func has returned
Completion(w) ==
  /\ task[w].pc = "completion"
  /\ LET j == task[w].job
         dest == DestDir(task[w].success, j) IN
       IF j \notin queue["active"]
         THEN UNCHANGED queueVars
         ELSE /\ queue' = RenameJob(queue, j, "active", dest)
              /\ jobData' = [jobData EXCEPT ![j].completed_at = TRUE,
                               ![j].status = IF task[w].success THEN "complete" ELSE "failed"]
  /\ task' = [task EXCEPT ![w] = IdleTask]
  /\ written' = <<>>
  /\ UNCHANGED <<envVars, cmdVars, sub, running, starts, cancelVars, softwareCheckDone,
                 workQueue, statusFile, devVars>>

\* ------------------------------------------- the upgrade state machine
Last(q) == q[Len(q)]

\* _save_device_status for the writes ws of one step (the last one stays on disk)
\* together with the task's new position
Apply(w, t2, ws) ==
  /\ task' = [task EXCEPT ![w] = t2]
  /\ written' = ws
  /\ statusFile' = IF ws = <<>> THEN statusFile
                   ELSE [statusFile EXCEPT ![Last(ws).serial] = Last(ws)]

\* upgrade_device has returned (success, msg) to its caller: the completion
\* handler for a standalone job, upgrade_ha_pair for a member of a pair
\* upgrade_device returned for the passive member whatever it returned and
\* upgrade_ha_pair goes on with the pair
ReturnedIgnoringPassive(t, ds, success) ==
  LET r == [t EXCEPT !.ds = ds,
                     !.passiveResult = IF t.member = "passive"
                                         THEN (IF success THEN "complete" ELSE "failed")
                                         ELSE @]
  IN IF t.func = "upgrade_ha_pair" /\ t.member = "passive"
       THEN [r EXCEPT !.pc = "ha_between"]
       ELSE [r EXCEPT !.pc = "completion", !.success = success]

Returned(t, ds, success) ==
  LET r == [t EXCEPT !.ds = ds,
                     !.passiveResult = IF t.member = "passive"
                                         THEN (IF success THEN "complete" ELSE "failed")
                                         ELSE @]
  IN IF t.func = "upgrade_ha_pair" /\ t.member = "passive" /\ success
       THEN [r EXCEPT !.pc = "ha_between"]
       ELSE [r EXCEPT !.pc = "completion", !.success = success]

\* a tail that puts a failed upgrade back to pending
TailStatusRequeue(ds, ok) ==
  [ds EXCEPT !.upgrade_status = IF ok THEN "complete" ELSE "pending"]

\* upgrade_device after _execute_upgrade_path returned ok: the status it sets
TailStatus(ds, ok) ==
  [ds EXCEPT !.upgrade_status = IF ok THEN "complete" ELSE "failed"]

\* _execute_upgrade_path returned ok with the in-memory status ds after the
\* writes ws; upgrade_device sets the final status, saves and returns
PathReturn(w, t, ds, ws, ok) ==
  LET d2 == TailStatus(ds, ok) IN
  Apply(w, Returned(t, d2, ok), Append(ws, d2))

\* upgrade_device: the branch taken on the live version once the path is known
\* ("in_path": skip past it and run the path, "complete": already at target,
\*  "run": run the whole path)
IdentifyBranch(live, path, target) ==
  IF live \in SeqSet(path) THEN "in_path"
  ELSE IF live = target THEN "complete"
  ELSE "run"

\* upgrade_device up to the call of _execute_upgrade_path
Identify(w) ==
  /\ task[w].pc = "identify"
  /\ LET s == task[w].serial
         t == [task[w] EXCEPT !.cmds = <<>>, !.preflight = "", !.postflight = "",
                              !.resumedFrom = IF HasExistingStatus(s)
                                                THEN statusFile[s].upgrade_status ELSE ""]
         ds0 == IF HasExistingStatus(s) THEN LoadExistingDeviceStatus(s)
                ELSE InitDeviceStatus(s)
         \* firewall_client.get_system_info() has been called
         ti == [t EXCEPT !.cmds = <<<<"system_info", "">>>>]
     IN
     IF s \notin plan.inventory
       THEN LET d == AddError([ds0 EXCEPT !.upgrade_status = "failed"], "init")
            IN Apply(w, Returned(t, d, FALSE), <<d>>)
       ELSE \E info \in {"ok", "raise"} :
         IF info = "raise"
           THEN LET d == AddError([ds0 EXCEPT !.upgrade_status = "failed"], "upgrade")
                IN Apply(w, Returned(ti, d, FALSE), <<d>>)
           ELSE
             LET live == devVersion[s]
                 lookup == IF ds0.starting_version # "" THEN ds0.starting_version ELSE live
                 d1 == [ds0 EXCEPT !.current_version = live, !.starting_version = lookup]
             IN
             IF ~HasUpgradePath(lookup)
               THEN LET d == [d1 EXCEPT !.upgrade_status = "skipped"]
                    IN Apply(w, Returned(ti, d, FALSE), <<d>>)
               ELSE
                 LET path == GetUpgradePath(lookup)
                     d2 == [d1 EXCEPT !.upgrade_path = path, !.target_version = Last(path)]
                     br == IdentifyBranch(live, path, d2.target_version)
                 IN
                 IF br = "complete"
                   THEN LET d == [d2 EXCEPT !.upgrade_status = "complete"]
                        IN Apply(w, Returned(ti, d, TRUE), <<d>>)
                   ELSE LET d == IF br = "in_path"
                                   THEN [d2 EXCEPT !.current_path_index = IndexOf(path, live)]
                                   ELSE d2
                        IN Apply(w, [ti EXCEPT !.ds = d, !.pc = "preflight"], <<d>>)
  /\ UNCHANGED <<envVars, queueVars, cmdVars, sub, running, starts, cancelVars, softwareCheckDone,
                 workQueue, devVars>>

\* _execute_upgrade_path phases 1-3 up to the call of _download_all_images
\* validation/pre_flight after _save_pre_flight_metrics wrote the metrics it
\* collected from device s (disk: whether they meet min_disk_gb)
SkipPreFlightMetrics(files, s, disk) == files

SavePreFlightMetrics(files, s, disk) == files \cup {<<s, disk>>}

\* run_pre_flight_validation_direct: the metrics meet min_disk_gb ("passed"),
\* the disk is below it ("disk"), or every attempt to fetch them raised ("error")
PreflightOutcomes == {"passed", "disk", "error"}

Preflight(w) ==
  /\ task[w].pc = "preflight"
  /\ LET t == task[w]
         s == t.serial
         d1 == [t.ds EXCEPT !.current_phase = "pre_flight_validation",
                            !.upgrade_status = "validating", !.progress = 5]
     IN
     \E out \in (IF t.dry_run THEN {"dry_run"} ELSE PreflightOutcomes) :
       LET tp == [t EXCEPT !.preflight = out] IN
       /\ preFlightFiles' =
            CASE out = "passed" -> SavePreFlightMetrics(preFlightFiles, s, "ok")
              [] out = "disk" -> SavePreFlightMetrics(preFlightFiles, s, "low")
              [] OTHER -> preFlightFiles
       /\ IF out \in {"disk", "error"}
            THEN LET d2 == AddError(d1, "pre_flight_validation")
                 IN /\ PathReturn(w, tp, d2, <<d1, d2>>, FALSE)
                    /\ UNCHANGED softwareCheckDone
            ELSE
              LET d3 == [d1 EXCEPT !.progress = 10]
                  ws3 == IF s \in softwareCheckDone THEN <<d1>> ELSE <<d1, d3>>
                  d3b == IF s \in softwareCheckDone THEN d1 ELSE d3
                  d4 == [d3b EXCEPT !.current_phase = "download",
                                    !.upgrade_status = "downloading", !.progress = 15]
              IN /\ Apply(w, [tp EXCEPT !.ds = d4, !.pc = "download", !.idx = 1],
                          Append(ws3, d4))
                 /\ softwareCheckDone' = softwareCheckDone \cup {s}
  /\ UNCHANGED <<invVersion, sideVars, submitResults, plan, intakeVars, queueVars, cmdVars, sub, running, starts, cancelVars,
                 workQueue, devVars>>

\* what an iteration of the download loop meets: an exception from the
\* device queries, too little disk space, or the download attempts
DownloadOutcomes == {"raise", "disk", "download"}

\* one download attempt: download_software returned no job id, or the job ran,
\* showed its progress and ended OK with the image listed ("ok"), OK with the
\* image not listed afterwards ("unlisted"), or not OK / stalled ("fail")
AttemptNoJob == [job |-> FALSE, reports |-> <<>>, result |-> "fail"]
DownloadAttemptOutcomes ==
  {AttemptNoJob}
    \cup [job : {TRUE}, reports : plan.reports, result : {"ok", "unlisted", "fail"}]

\* a download loop that gives up after the first attempt
AttemptRunsNoRetry(n) == [1..1 -> DownloadAttemptOutcomes]

\* the attempts of the retry loop for one version: it goes on while attempts
\* fail and stops at the first success or after n attempts
AttemptRuns(n) ==
  {a \in UNION {[1..k -> DownloadAttemptOutcomes] : k \in 1..n} :
     /\ \A i \in 1..(Len(a) - 1) : a[i].result = "fail"
     /\ a[Len(a)].result # "fail" \/ Len(a) = n}

\* wait_for_download: the callback is called for each poll whose progress
\* differs from the previous one; update_download_progress maps it into the
\* slice of version idx0 (0-based) and saves
DownloadProgress(idx0, total, p) ==
  LET version_slice == 35 \div (IF total > 1 THEN total ELSE 1)
  IN 15 + (idx0 * version_slice) + ((p * version_slice) \div 100)

ProgressCallbackWrites(d, idx0, total, reports) ==
  [i \in 1..Len(reports) |->
     [d EXCEPT !.progress = DownloadProgress(idx0, total, reports[i])]]

\* the DeviceStatus writes of attempt k
AttemptWrites(d, k, att, idx0, total) ==
  LET pre == IF k > 1 THEN <<d, d>> ELSE <<d>>
  IN IF att.job THEN pre \o <<d>> \o ProgressCallbackWrites(d, idx0, total, att.reports)
     ELSE pre

\* the DeviceStatus writes of the attempts k.. of a run
RECURSIVE RunWrites(_, _, _, _, _)
RunWrites(d, run, k, idx0, total) ==
  IF k > Len(run) THEN <<>>
  ELSE LET ws == AttemptWrites(d, k, run[k], idx0, total)
       IN ws \o RunWrites(ws[Len(ws)], run, k + 1, idx0, total)

\* where the state machine goes once the download loop has handled version idx
AfterDownload(t, d) ==
  IF t.idx < Len(d.upgrade_path)
    THEN [t EXCEPT !.ds = d, !.idx = t.idx + 1]
    ELSE [t EXCEPT !.ds = d, !.pc = "verify"]

\* _download_all_images: one iteration of the loop over the upgrade path
Download(w) ==
  /\ task[w].pc = "download"
  /\ LET t == task[w]
         s == t.serial
         path == t.ds.upgrade_path
         v == path[t.idx]
         total == Len(path)
     IN
     IF IsCancelled(t.job, s)
       THEN LET d == [t.ds EXCEPT !.upgrade_status = "cancelled"]
            IN /\ PathReturn(w, [t EXCEPT !.sawCancel = TRUE], d, <<d>>, FALSE)
               /\ UNCHANGED devVars
       ELSE
         LET d1 == [t.ds EXCEPT !.current_path_index = t.idx - 1,
                                !.progress = 15 + (((t.idx - 1) * 35) \div total)]
         IN
         IF t.dry_run
           THEN /\ Apply(w, AfterDownload(t, d1), <<d1, d1>>)
                /\ UNCHANGED devVars
         ELSE IF v \in devImages[s]
           THEN LET d2 == [d1 EXCEPT !.skipped_versions = Append(@, v)]
                IN /\ Apply(w, AfterDownload(t, d2), <<d1, d2>>)
                   /\ UNCHANGED devVars
         ELSE \E out \in DownloadOutcomes :
           CASE out = "raise" ->
                  LET d2 == AddError(d1, d1.current_phase)
                  IN /\ PathReturn(w, t, d2, <<d1, d2>>, FALSE)
                     /\ UNCHANGED devVars
             [] out = "disk" ->
                  LET d2 == AddError([d1 EXCEPT !.upgrade_status = "failed"], "download")
                  IN /\ PathReturn(w, t, d2, <<d1, d2>>, FALSE)
                     /\ UNCHANGED devVars
             [] out = "download" ->
                  \E run \in AttemptRuns(plan.retry_attempts) :
                    LET ws == <<d1>> \o RunWrites(d1, run, 1, t.idx - 1, total)
                        dL == ws[Len(ws)]
                        res == run[Len(run)].result
                        tc == [t EXCEPT !.cmds =
                                 @ \o [k \in 1..Len(run) |-> <<"download_start", v>>]]
                    IN IF res = "fail"
                         THEN LET d2 == AddError([dL EXCEPT !.upgrade_status = "failed"],
                                                 "download")
                              IN /\ PathReturn(w, tc, d2, Append(ws, d2), FALSE)
                                 /\ UNCHANGED devVars
                         ELSE LET d2 == [dL EXCEPT !.downloaded_versions = Append(@, v)]
                              IN /\ Apply(w, AfterDownload(tc, d2), ws)
                                 /\ devImages' = IF res = "ok"
                                                   THEN [devImages EXCEPT ![s] = @ \cup {v}]
                                                   ELSE devImages
                                 /\ UNCHANGED devVersion
  /\ UNCHANGED <<envVars, queueVars, cmdVars, sub, running, starts, cancelVars, softwareCheckDone,
                 workQueue>>

\* a verification that reports nothing missing
VerifyNothingMissing(s, path) == {}

\* _verify_all_images_downloaded: the versions of the path the device lacks
VerifyAllImagesDownloaded(s, path) ==
  {path[i] : i \in {k \in 1..Len(path) : path[k] \notin devImages[s]}}

\* the version handed to install_software
FinalVersion(path) == IF path = <<>> THEN "" ELSE Last(path)

InstallOutcomes == {"ok", "no_job", "fail"}

\* _execute_upgrade_path phases 4 and 5: verify all images, install the final one
VerifyInstall(w) ==
  /\ task[w].pc = "verify"
  /\ LET t == task[w]
         s == t.serial
         path == t.ds.upgrade_path
         final == FinalVersion(path)
         d1 == [t.ds EXCEPT !.progress = 55]
         d3 == [d1 EXCEPT !.current_phase = "install", !.upgrade_status = "installing",
                          !.progress = 60]
     IN
     IF t.dry_run
       THEN Apply(w, [t EXCEPT !.ds = d3, !.pc = "reboot"], <<d1, d3>>)
     ELSE IF VerifyAllImagesDownloaded(s, path) # {}
       THEN LET d2 == AddError([d1 EXCEPT !.upgrade_status = "failed"], "download")
            IN PathReturn(w, t, d2, <<d1, d2>>, FALSE)
     ELSE \E out \in InstallOutcomes :
       LET tc == [t EXCEPT !.cmds = Append(@, <<"install_start", final>>)]
           d4 == AddError(d3, "install")
       IN
       IF out = "ok"
         THEN Apply(w, [tc EXCEPT !.ds = d3, !.pc = "reboot"], <<d1, d3, d3>>)
         ELSE PathReturn(w, tc, d4, <<d1, d3, d4>>, FALSE)
  /\ UNCHANGED <<envVars, queueVars, cmdVars, sub, running, starts, cancelVars, softwareCheckDone,
                 workQueue, devVars>>

RebootOutcomes == {"ok", "refused", "not_ready"}

\* _execute_upgrade_path phase 6: reboot and wait for the device
Reboot(w) ==
  /\ task[w].pc = "reboot"
  /\ LET t == task[w]
         s == t.serial
         final == FinalVersion(t.ds.upgrade_path)
         d1 == [t.ds EXCEPT !.current_phase = "reboot", !.upgrade_status = "rebooting",
                            !.progress = 75]
         d2 == AddError(d1, "reboot")
         tc == [t EXCEPT !.cmds = Append(@, <<"reboot_start", final>>)]
     IN
     IF t.dry_run
       THEN /\ Apply(w, [t EXCEPT !.ds = d1, !.pc = "postflight"], <<d1>>)
            /\ UNCHANGED devVars
       ELSE \E out \in RebootOutcomes :
         CASE out = "refused" ->
                /\ PathReturn(w, tc, d2, <<d1, d2>>, FALSE)
                /\ UNCHANGED devVars
           [] out = "not_ready" ->
                /\ PathReturn(w, tc, d2, <<d1, d1, d1, d2>>, FALSE)
                /\ devVersion' = [devVersion EXCEPT ![s] = final]
                /\ UNCHANGED devImages
           [] out = "ok" ->
                /\ Apply(w, [tc EXCEPT !.ds = d1, !.pc = "postflight"], <<d1, d1, d1, d1>>)
                /\ devVersion' = [devVersion EXCEPT ![s] = final]
                /\ UNCHANGED devImages
  /\ UNCHANGED <<envVars, queueVars, cmdVars, sub, running, starts, cancelVars, softwareCheckDone,
                 workQueue>>

\* a final status that keeps the version read at identification
FinalizeProgressOnly(ds, final) ==
  [ds EXCEPT !.progress = 100]

\* _execute_upgrade_path: the status it leaves when every phase has passed
FinalizeStatus(ds, final) ==
  [ds EXCEPT !.current_version = final, !.progress = 100]

\* _execute_upgrade_path phase 7 (post-flight, never fatal) and its return
\* get_latest_pre_flight_metrics: whether a snapshot of device s is on disk
HasPreFlightMetrics(s) == \E f \in preFlightFiles : f[1] = s

\* run_post_flight_validation_direct: every metric within its margin
\* ("passed"), some metric outside ("margins"), or every attempt to fetch the
\* metrics raised ("error"); "skipped" when the validation is not run
PostflightOutcomes == {"passed", "margins", "error"}

\* _execute_upgrade_path after post-flight returned: whether it goes on to
\* record the final version
PostflightFatal(out) == out \in {"passed", "skipped"}

PostflightContinues(out) == TRUE

Postflight(w) ==
  /\ task[w].pc = "postflight"
  /\ LET t == task[w]
         final == FinalVersion(t.ds.upgrade_path)
         d1 == [t.ds EXCEPT !.current_phase = "post_flight_validation", !.progress = 90]
         d2 == FinalizeStatus(d1, final)
     IN \E out \in (IF t.dry_run \/ ~HasPreFlightMetrics(t.serial)
                      THEN {"skipped"} ELSE PostflightOutcomes) :
          LET tp == [t EXCEPT !.postflight = out] IN
          IF PostflightContinues(out)
            THEN PathReturn(w, tp, d2, <<d1, d2>>, TRUE)
            ELSE PathReturn(w, tp, d1, <<d1>>, FALSE)
  /\ UNCHANGED <<envVars, queueVars, cmdVars, sub, running, starts, cancelVars, softwareCheckDone,
                 workQueue, devVars>>

\* ---------------------------------------------------------- HA pairs
\* upgrade_ha_pair: which member is upgraded first, <<passive, active>>,
\* from the local_state of the primary and of the secondary
HaOrder(primary, secondary) ==
  IF HaLocalState[primary] = "passive" THEN <<primary, secondary>>
  ELSE IF HaLocalState[secondary] = "passive" THEN <<secondary, primary>>
  ELSE <<>>

\* upgrade_ha_pair: the single target version of the pair ("" when neither
\* member's version has an upgrade path)
HaTarget(pv, sv) ==
  IF HasUpgradePath(pv) THEN Last(GetUpgradePath(pv))
  ELSE IF HasUpgradePath(sv) THEN Last(GetUpgradePath(sv))
  ELSE ""

\* upgrade_ha_pair up to the upgrade of the passive member
HaInit(w) ==
  /\ task[w].pc = "ha_init"
  /\ LET t == task[w]
         pv == devVersion[t.primary]
         sv == devVersion[t.secondary]
         target == HaTarget(pv, sv)
         order == HaOrder(t.primary, t.secondary)
         fail == [t EXCEPT !.pc = "completion", !.success = FALSE]
     IN
     IF t.primary \notin plan.inventory \/ t.secondary \notin plan.inventory
       THEN Apply(w, fail, <<>>)
       ELSE \E info \in {"ok", "raise"} :
         IF info = "raise" THEN Apply(w, fail, <<>>)
         ELSE IF target = ""
           THEN Apply(w, [t EXCEPT !.pc = "completion", !.success = (pv = sv)], <<>>)
         ELSE IF order = <<>> THEN Apply(w, fail, <<>>)
         ELSE
           LET t2 == [t EXCEPT !.passive = order[1], !.active = order[2],
                               !.target = target,
                               !.activeVersion = devVersion[order[2]]]
           IN
           IF devVersion[order[1]] = target
             THEN Apply(w, [t2 EXCEPT !.pc = "ha_between", !.passiveResult = "noop"], <<>>)
             ELSE Apply(w, [t2 EXCEPT !.pc = "identify", !.member = "passive",
                                      !.serial = order[1]], <<>>)
  /\ UNCHANGED <<envVars, queueVars, cmdVars, sub, running, starts, cancelVars, softwareCheckDone,
                 workQueue, devVars>>

\* upgrade_ha_pair between the two members: cancellation check, then the
\* active member
HaBetween(w) ==
  /\ task[w].pc = "ha_between"
  /\ LET t == task[w] IN
     IF IsCancelled(t.job, t.passive)
       THEN Apply(w, [t EXCEPT !.pc = "completion", !.success = FALSE, !.sawCancel = TRUE],
                  <<>>)
     ELSE IF t.activeVersion = t.target
       THEN Apply(w, [t EXCEPT !.pc = "completion", !.success = TRUE], <<>>)
     ELSE Apply(w, [t EXCEPT !.pc = "identify", !.member = "active", !.serial = t.active,
                             !.cmds = <<>>, !.preflight = "", !.postflight = ""],
                <<>>)
  /\ UNCHANGED <<envVars, queueVars, cmdVars, sub, running, starts, cancelVars, softwareCheckDone,
                 workQueue, devVars>>

\* ------------------------------------------------------- download-only
STATUS_DOWNLOAD_COMPLETE == "download_complete"

\* the versions of path, in order, that satisfy keep
RECURSIVE SelectVersions(_, _)
SelectVersions(path, keep) ==
  IF path = <<>> THEN <<>>
  ELSE IF Head(path) \in keep THEN <<Head(path)>> \o SelectVersions(Tail(path), keep)
  ELSE SelectVersions(Tail(path), keep)

\* download_only_device: "All downloads complete"
DownloadCompleteStatus(ds) ==
  [ds EXCEPT !.upgrade_status = STATUS_DOWNLOAD_COMPLETE, !.progress = 100,
             !.ready_for_install = TRUE]

\* download_only_device returned (success, msg) to the completion handler
DoReturn(w, t, ds, ws, success) ==
  Apply(w, [t EXCEPT !.ds = ds, !.pc = "completion", !.success = success], ws)

\* download_only_device up to the download loop
DoIdentify(w) ==
  /\ task[w].pc = "do_identify"
  /\ LET s == task[w].serial
         t == [task[w] EXCEPT !.resumedFrom = IF HasExistingStatus(s)
                                                THEN statusFile[s].upgrade_status ELSE ""]
         ds0 == IF HasExistingStatus(s) THEN LoadExistingDeviceStatus(s)
                ELSE InitDeviceStatus(s)
     IN
     IF s \notin plan.inventory
       THEN LET d == AddError([ds0 EXCEPT !.upgrade_status = "failed"], "init")
            IN DoReturn(w, t, d, <<d>>, FALSE)
       ELSE
         LET inv == invVersion[s]
             lookup == IF ds0.starting_version # "" THEN ds0.starting_version ELSE inv
             d1 == IF ds0.starting_version # "" THEN ds0
                   ELSE [ds0 EXCEPT !.starting_version = inv, !.current_version = inv]
         IN
         IF ~HasUpgradePath(lookup)
           THEN LET d == [d1 EXCEPT !.upgrade_status = "skipped"]
                IN DoReturn(w, t, d, <<d>>, FALSE)
           ELSE
             LET path == GetUpgradePath(lookup)
                 d2 == [d1 EXCEPT !.upgrade_path = path, !.target_version = Last(path)]
                 d3 == [d2 EXCEPT !.current_phase = "software_check",
                                  !.upgrade_status = "validating", !.progress = 5]
             IN
             IF t.dry_run
               THEN LET d4 == [d3 EXCEPT !.current_phase = "pre_flight_disk_check",
                                         !.progress = 8]
                    IN Apply(w, [t EXCEPT !.ds = d4, !.pc = "do_download", !.idx = 1,
                                          !.todo = path],
                             <<d2, d3, d3, d4, d4>>)
               ELSE \E out \in {"ok", "raise", "disk"} :
                 LET have == SelectVersions(path, devImages[s])
                     todo == SelectVersions(path, Versions \ devImages[s])
                     d4 == [d3 EXCEPT !.skipped_versions = @ \o have]
                     d5 == [d4 EXCEPT !.current_phase = "pre_flight_disk_check",
                                      !.progress = 8]
                 IN
                 IF out = "raise"
                   THEN LET d == AddError([d3 EXCEPT !.upgrade_status = "failed"], "download")
                        IN DoReturn(w, t, d, <<d2, d3, d3, d>>, FALSE)
                 ELSE IF todo = <<>>
                   THEN LET d == DownloadCompleteStatus(d4)
                        IN DoReturn(w, t, d, <<d2, d3, d3, d>>, TRUE)
                 ELSE IF out = "disk"
                   THEN LET d == AddError([d5 EXCEPT !.upgrade_status = "failed"],
                                          "pre_flight")
                        IN DoReturn(w, t, d, <<d2, d3, d3, d5, d>>, FALSE)
                 ELSE Apply(w, [t EXCEPT !.ds = d5, !.pc = "do_download", !.idx = 1,
                                         !.todo = todo],
                            <<d2, d3, d3, d5>>)
  /\ UNCHANGED <<envVars, queueVars, cmdVars, sub, running, starts, cancelVars, softwareCheckDone,
                 workQueue, devVars>>

\* download_only_device: where it goes once version idx of the list is handled
DoAfterDownload(w, t, d, ws) ==
  IF t.idx < Len(t.todo)
    THEN Apply(w, [t EXCEPT !.ds = d, !.idx = t.idx + 1], ws)
    ELSE LET dc == DownloadCompleteStatus(d)
         IN DoReturn(w, t, dc, Append(ws, dc), TRUE)

\* update_progress of download_only_device: the slice of version idx0 in 10..90
DoDownloadProgress(idx0, total, p) ==
  LET version_slice == 80 \div (IF total > 1 THEN total ELSE 1)
  IN 10 + (idx0 * version_slice) + ((p * version_slice) \div 100)

\* download_only_device: one iteration of the loop over versions_to_download
\* (a single download attempt per version)
DoDownload(w) ==
  /\ task[w].pc = "do_download"
  /\ LET t == task[w]
         s == t.serial
         v == t.todo[t.idx]
         total == Len(t.todo)
     IN
     IF IsCancelled(t.job, s)
       THEN LET d == [t.ds EXCEPT !.upgrade_status = "cancelled"]
            IN /\ DoReturn(w, [t EXCEPT !.sawCancel = TRUE], d, <<d>>, FALSE)
               /\ UNCHANGED devVars
       ELSE
         LET d1 == [t.ds EXCEPT !.current_path_index = IndexOf(t.ds.upgrade_path, v) - 1,
                                !.current_phase = "download",
                                !.upgrade_status = "downloading",
                                !.progress = 10 + (((t.idx - 1) * 80) \div total)]
             tc == [t EXCEPT !.cmds = Append(@, <<"download_start", v>>)]
         IN
         IF t.dry_run
           THEN /\ DoAfterDownload(w, t, d1, <<d1, d1>>)
                /\ UNCHANGED devVars
           ELSE \E out \in DownloadOutcomes :
             CASE out = "raise" ->
                    LET d2 == AddError([d1 EXCEPT !.upgrade_status = "failed"], "download")
                    IN /\ DoReturn(w, t, d2, <<d1, d1, d2>>, FALSE)
                       /\ UNCHANGED devVars
               [] out = "disk" ->
                    LET d2 == AddError([d1 EXCEPT !.upgrade_status = "failed"], "download")
                    IN /\ DoReturn(w, t, d2, <<d1, d1, d2>>, FALSE)
                       /\ UNCHANGED devVars
               [] out = "download" ->
                    \E att \in DownloadAttemptOutcomes :
                      LET cb == [i \in 1..Len(att.reports) |->
                                   [d1 EXCEPT !.progress =
                                      DoDownloadProgress(t.idx - 1, total, att.reports[i])]]
                          ws == IF att.job THEN <<d1, d1, d1>> \o cb ELSE <<d1, d1>>
                          dL == ws[Len(ws)]
                      IN IF att.result = "fail"
                           THEN LET d2 == AddError([dL EXCEPT !.upgrade_status = "failed"],
                                                   "download")
                                IN /\ DoReturn(w, tc, d2, Append(ws, d2), FALSE)
                                   /\ UNCHANGED devVars
                           ELSE LET d2 == [dL EXCEPT !.downloaded_versions = Append(@, v)]
                                IN /\ DoAfterDownload(w, tc, d2, Append(ws, d2))
                                   /\ devImages' = IF att.result = "ok"
                                                     THEN [devImages EXCEPT ![s] = @ \cup {v}]
                                                     ELSE devImages
                                   /\ UNCHANGED devVersion
  /\ UNCHANGED <<envVars, queueVars, cmdVars, sub, running, starts, cancelVars, softwareCheckDone,
                 workQueue>>

\* ---------------------------------------------------------------- system
\* one file written with atomic_write_json by several threads and read with
\* read_json: inode 0 holds the previous content, inode k is the temporary
\* file of writer k; a content is written and read in two pieces
Writers == 1..MaxWriters
Inodes == 0..MaxWriters
NoInode == <<"absent">>
ContentOf(k) == <<k, k>>

\* the threads that call process_command: the main thread (the startup scan
\* of _start_command_queue_monitor) and the observer thread (on_created)
CmdThreads == {"main", "observer"}
IdleCmdThread == [pc |-> "off", file |-> 0]

\* the state after construction, the operators' plan apart
\* no wait_for_download / wait_for_install call is running
NoReport == [kind |-> "none", status |-> "", result |-> "", progress |-> ""]
IdlePoll == [pc |-> "idle", elapsed |-> 0, last_progress |-> -1, ret |-> FALSE,
             cause |-> "", report |-> NoReport, sawError |-> FALSE,
             best |-> 0, advancedAt |-> 0, cbPrev |-> -1, cbArg |-> -1]

\* no validation has run
NoMetrics == [tcp_sessions |-> 0, route_count |-> 0, arp_count |-> 0]
NoMetricComparison == [difference |-> 0, within_margin |-> FALSE]
NoComparison == [tcp_sessions |-> NoMetricComparison, routes |-> NoMetricComparison,
                 arp_entries |-> NoMetricComparison]
IdleCmp == [pc |-> "idle", margins |-> [tcp_session_margin |-> 0, route_margin |-> 0,
                                        arp_margin |-> 0],
            pre |-> NoMetrics, post |-> NoMetrics, comparison |-> NoComparison,
            validation_passed |-> FALSE]

\* RateLimiter.__init__ and the threads that share the limiter. Tokens are
\* counted in sixtieths of a token, time in seconds.
Callers == {"t1", "t2"}
TokenUnit == 60
NewBucket == [tokens |-> RateLimit * TokenUnit, last_update |-> 0, lock |-> "", clock |-> 0]
IdleCaller == [pc |-> "idle", blocking |-> FALSE, ret |-> FALSE, taken |-> 0]

InitState ==
  /\ queue = [d \in QueueDirs |-> {}]
  /\ jobData = [j \in JobIds |-> NoJob]
  /\ sub = [p \in Submitters |-> IdleSub]
  /\ incoming = {}
  /\ processed = {}
  /\ cmdData = [c \in CmdIds |-> NoCmd]
  /\ running = FALSE
  /\ starts = 0
  /\ cancelledJobs = {}
  /\ cancelledDevices = {}
  /\ softwareCheckDone = {}
  /\ workQueue = <<>>
  /\ task = [w \in Workers |-> IdleTask]
  /\ statusFile = [s \in Serials |-> NoStatusFile(s)]
  /\ written = <<>>
  /\ devVersion \in [Serials -> InitialVersions]
  /\ devImages = [s \in Serials |-> {}]
  /\ invVersion = devVersion
  /\ preFlightFiles = {}
  /\ scanTodo = {}
  /\ events = <<>>
  /\ cmdThread = [th \in CmdThreads |-> IdleCmdThread]
  /\ handled = [c \in CmdIds |-> 0]
  /\ submitResults = <<>>
  /\ inode = [i \in Inodes |-> IF i = 0 THEN ContentOf(0) ELSE NoInode]
  /\ linked = 0
  /\ wr = [k \in Writers |-> "idle"]
  /\ rd = [pc |-> "idle", ino |-> 0, got |-> <<>>]
  /\ poll = IdlePoll
  /\ cmp = IdleCmp
  /\ oldCmds = [j \in JobIds |-> {}]
  /\ bucket = NewBucket
  /\ caller = [th \in Callers |-> IdleCaller]

Init ==
  /\ InitState
  /\ plan \in Plans

Next ==
  \/ \E p \in Submitters : SubmitCheck(p)
  \/ \E p \in Submitters : SubmitWrite(p)
  \/ DropCancel
  \/ \E c \in CmdIds : ProcessCommand(c)
  \/ DaemonStart
  \/ DaemonStop
  \/ \E j \in JobIds : ScanJob(j)
  \/ \E w \in Workers : WorkerTake(w)
  \/ \E w \in Workers : Identify(w)
  \/ \E w \in Workers : Preflight(w)
  \/ \E w \in Workers : Download(w)
  \/ \E w \in Workers : VerifyInstall(w)
  \/ \E w \in Workers : Reboot(w)
  \/ \E w \in Workers : Postflight(w)
  \/ \E w \in Workers : HaInit(w)
  \/ \E w \in Workers : HaBetween(w)
  \/ \E w \in Workers : DoIdentify(w)
  \/ \E w \in Workers : DoDownload(w)
  \/ \E w \in Workers : Completion(w)

Spec == Init /\ [][Next]_vars

\* ------------------------------------- a job file placed in pending again
\* The operator's plan when job files are copied by hand: one standalone
\* upgrade of s1, no cancel, no restart.
ReplayPlans ==
  { [inventory |-> Inventory, retry_attempts |-> 1, jobs |-> 1, cancels |-> 0, starts |-> 1, replays |-> MaxReplays,
     reports |-> SteadyReports, queue_size |-> QueueSize,
     requests |-> {<<JOB_TYPE_STANDALONE, <<"s1">>, dry>> : dry \in BOOLEAN}] }

\* an operator puts <job_id>.json of an existing job into queue/pending once
\* more, past the CLI's check; the scanner's glob of pending finds it
PlaceAgain(j) ==
  /\ j \in Created
  /\ j \notin queue["pending"]
  /\ plan.replays > 0
  /\ plan' = [plan EXCEPT !.replays = @ - 1]
  /\ queue' = [queue EXCEPT !["pending"] = @ \cup {j}]
  /\ written' = <<>>
  /\ UNCHANGED <<invVersion, sideVars, submitResults, preFlightFiles, intakeVars, jobData, cmdVars, sub, running, starts, cancelVars,
                 softwareCheckDone, workQueue, task, statusFile, devVars>>

InitReplay ==
  /\ InitState
  /\ plan \in ReplayPlans

NextReplay ==
  \/ \E p \in Submitters : SubmitCheck(p)
  \/ \E p \in Submitters : SubmitWrite(p)
  \/ \E j \in JobIds : PlaceAgain(j)
  \/ DaemonStart
  \/ \E j \in JobIds : ScanJob(j)
  \/ \E w \in Workers : WorkerTake(w)
  \/ \E w \in Workers : Identify(w)
  \/ \E w \in Workers : Preflight(w)
  \/ \E w \in Workers : Download(w)
  \/ \E w \in Workers : VerifyInstall(w)
  \/ \E w \in Workers : Reboot(w)
  \/ \E w \in Workers : Postflight(w)
  \/ \E w \in Workers : Completion(w)

SpecReplay == InitReplay /\ [][NextReplay]_vars

\* --------------------------------- command intake, one step per file access
\* The operator's plan for the command directory alone: cancel commands for
\* devices, one daemon start, no job.
IntakePlans ==
  { [inventory |-> Inventory, retry_attempts |-> 1, jobs |-> 0, cancels |-> MaxCancels, starts |-> 1, reports |-> {}, queue_size |-> QueueSize,
     requests |-> {}] }

\* an operator creates a cancel_upgrade command file; the running observer
\* queues an on_created event for it
IntakeDrop ==
  /\ Cardinality(CmdsDropped) < plan.cancels
  /\ LET c == CHOOSE c \in CmdIds : c \notin CmdsDropped IN
       /\ \E s \in Serials :
            cmdData' = [cmdData EXCEPT ![c] = [job_id |-> 0, device_serial |-> s]]
       /\ incoming' = incoming \cup {c}
       /\ events' = IF cmdThread["observer"].pc # "off" THEN Append(events, c) ELSE events
  /\ written' = <<>>
  /\ UNCHANGED <<invVersion, sideVars, submitResults, plan, preFlightFiles, scanTodo, cmdThread, handled, processed,
                 queueVars, sub, running, starts, cancelVars, softwareCheckDone, workQueue,
                 task, statusFile, devVars>>

\* start up to self._observer.start() in _start_command_queue_monitor
IntakeStart ==
  /\ ~running
  /\ starts < plan.starts
  /\ running' = TRUE
  /\ starts' = starts + 1
  /\ cmdThread' = [cmdThread EXCEPT !["observer"] = [pc |-> "wait", file |-> 0],
                                    !["main"] = [pc |-> "glob", file |-> 0]]
  /\ written' = <<>>
  /\ UNCHANGED <<invVersion, sideVars, submitResults, plan, preFlightFiles, scanTodo, events, handled, cmdVars,
                 queueVars, sub, cancelVars, softwareCheckDone, workQueue, task, statusFile,
                 devVars>>

\* command_dir.glob("*.json"): the files present when the scan starts
IntakeGlob ==
  /\ cmdThread["main"].pc = "glob"
  /\ scanTodo' = incoming
  /\ cmdThread' = [cmdThread EXCEPT !["main"].pc = "scan"]
  /\ written' = <<>>
  /\ UNCHANGED <<invVersion, sideVars, submitResults, plan, preFlightFiles, events, handled, cmdVars, queueVars, sub,
                 running, starts, cancelVars, softwareCheckDone, workQueue, task, statusFile,
                 devVars>>

\* the startup scan calls process_command for the next file of its glob
IntakeScanNext ==
  /\ cmdThread["main"].pc = "scan"
  /\ IF scanTodo = {}
       THEN /\ cmdThread' = [cmdThread EXCEPT !["main"].pc = "done"]
            /\ UNCHANGED scanTodo
       ELSE \E c \in scanTodo :
              /\ scanTodo' = scanTodo \ {c}
              /\ cmdThread' = [cmdThread EXCEPT !["main"] = [pc |-> "read", file |-> c]]
  /\ written' = <<>>
  /\ UNCHANGED <<invVersion, sideVars, submitResults, plan, preFlightFiles, events, handled, cmdVars, queueVars, sub,
                 running, starts, cancelVars, softwareCheckDone, workQueue, task, statusFile,
                 devVars>>

\* CommandQueueHandler.on_created calls process_command for the next event
IntakeEvent ==
  /\ cmdThread["observer"].pc = "wait"
  /\ events # <<>>
  /\ events' = Tail(events)
  /\ cmdThread' = [cmdThread EXCEPT !["observer"] = [pc |-> "read", file |-> Head(events)]]
  /\ written' = <<>>
  /\ UNCHANGED <<invVersion, sideVars, submitResults, plan, preFlightFiles, scanTodo, handled, cmdVars, queueVars, sub,
                 running, starts, cancelVars, softwareCheckDone, workQueue, task, statusFile,
                 devVars>>

\* where a thread goes when process_command returns
AfterCommand(th) == IF th = "main" THEN "scan" ELSE "wait"

\* process_command, first half: read_json and _handle_cancel_command
\* (read_json raises when the file is gone; the exception is logged)
CmdRead(th) ==
  /\ cmdThread[th].pc = "read"
  /\ LET c == cmdThread[th].file IN
       IF c \in incoming
         THEN /\ cancelledJobs' = CancelledJobsAfter(cancelledJobs, {c})
              /\ cancelledDevices' = CancelledDevicesAfter(cancelledDevices, {c})
              /\ handled' = [handled EXCEPT ![c] = @ + 1]
              /\ cmdThread' = [cmdThread EXCEPT ![th].pc = "rename"]
         ELSE /\ cmdThread' = [cmdThread EXCEPT ![th] = [pc |-> AfterCommand(th), file |-> 0]]
              /\ UNCHANGED <<cancelVars, handled>>
  /\ written' = <<>>
  /\ UNCHANGED <<invVersion, sideVars, submitResults, plan, preFlightFiles, scanTodo, events, cmdVars, queueVars, sub,
                 running, starts, softwareCheckDone, workQueue, task, statusFile, devVars>>

\* process_command, second half: command_file.rename(processed_file)
\* (raises when the file is gone; the exception is logged)
CmdRename(th) ==
  /\ cmdThread[th].pc = "rename"
  /\ LET c == cmdThread[th].file IN
       IF c \in incoming
         THEN /\ incoming' = incoming \ {c}
              /\ processed' = processed \cup {c}
         ELSE UNCHANGED <<incoming, processed>>
  /\ cmdThread' = [cmdThread EXCEPT ![th] = [pc |-> AfterCommand(th), file |-> 0]]
  /\ written' = <<>>
  /\ UNCHANGED <<invVersion, sideVars, submitResults, plan, preFlightFiles, scanTodo, events, handled, cmdData,
                 queueVars, sub, running, starts, cancelVars, softwareCheckDone, workQueue,
                 task, statusFile, devVars>>

InitIntake ==
  /\ InitState
  /\ plan \in IntakePlans

NextIntake ==
  \/ IntakeDrop
  \/ IntakeStart
  \/ IntakeGlob
  \/ IntakeScanNext
  \/ IntakeEvent
  \/ \E th \in CmdThreads : CmdRead(th)
  \/ \E th \in CmdThreads : CmdRename(th)

SpecIntake == InitIntake /\ [][NextIntake]_vars

\* ------------------------------------------- a daemon with a small queue
\* The operator's plan with workers.queue_size set low: dry-run standalone
\* upgrades, one daemon start, no cancel.
PoolPlans ==
  { [inventory |-> Inventory, retry_attempts |-> 1, jobs |-> MaxJobs, cancels |-> 0, starts |-> 1, reports |-> SteadyReports,
     queue_size |-> PoolQueueSize,
     requests |-> {<<JOB_TYPE_STANDALONE, <<s>>, TRUE>> : s \in Serials}] }

InitPool ==
  /\ InitState
  /\ plan \in PoolPlans

\* a worker thread inside the work function of its item
TaskStep(w) ==
  \/ Identify(w)
  \/ Preflight(w)
  \/ Download(w)
  \/ VerifyInstall(w)
  \/ Reboot(w)
  \/ Postflight(w)
  \/ Completion(w)

NextPool ==
  \/ \E p \in Submitters : SubmitCheck(p)
  \/ \E p \in Submitters : SubmitWrite(p)
  \/ DaemonStart
  \/ \E j \in JobIds : ScanJob(j)
  \/ \E w \in Workers : WorkerTake(w)
  \/ \E w \in Workers : TaskStep(w)

\* the scanner thread and the worker threads keep running; every work
\* function that was started returns
FairPool ==
  /\ \A j \in JobIds : WF_vars(ScanJob(j))
  /\ \A w \in Workers : WF_vars(WorkerTake(w))
  /\ \A w \in Workers : WF_vars(TaskStep(w))

SpecPool == InitPool /\ [][NextPool]_vars /\ FairPool

\* ------------------------------------- a device missing from the inventory
\* The operator's plan when discovery has not found s2: one job of any kind,
\* one daemon start, no cancel.
InventoryPlans ==
  { [inventory |-> {"s1"}, retry_attempts |-> 1, jobs |-> 1, cancels |-> 0, starts |-> 1,
     reports |-> SteadyReports, queue_size |-> QueueSize, requests |-> SubmitRequests] }

InitInventory ==
  /\ InitState
  /\ plan \in InventoryPlans

NextInventory ==
  \/ \E p \in Submitters : SubmitCheck(p)
  \/ \E p \in Submitters : SubmitWrite(p)
  \/ DaemonStart
  \/ \E j \in JobIds : ScanJob(j)
  \/ \E w \in Workers : WorkerTake(w)
  \/ \E w \in Workers : Identify(w)
  \/ \E w \in Workers : Preflight(w)
  \/ \E w \in Workers : Download(w)
  \/ \E w \in Workers : VerifyInstall(w)
  \/ \E w \in Workers : Reboot(w)
  \/ \E w \in Workers : Postflight(w)
  \/ \E w \in Workers : HaInit(w)
  \/ \E w \in Workers : DoIdentify(w)
  \/ \E w \in Workers : DoDownload(w)
  \/ \E w \in Workers : Completion(w)

SpecInventory == InitInventory /\ [][NextInventory]_vars

\* ------------------------------ job files written by other hands than the CLI
\* queue/pending is a directory any operator or tool can write to: one job
\* file of any type and device list is put there, one daemon start, no cancel.
DispatchPlans ==
  { [inventory |-> Inventory, retry_attempts |-> DownloadRetryAttempts, jobs |-> 1, cancels |-> 0, starts |-> 1, reports |-> SteadyReports,
     queue_size |-> QueueSize, requests |-> {}] }

\* the contents such a file can have that Job(**job_data) accepts: any
\* string as type, any list as devices
JobFileContents ==
  {<<ty, devs, dry>> :
     ty \in {JOB_TYPE_STANDALONE, JOB_TYPE_HA_PAIR, JOB_TYPE_DOWNLOAD_ONLY, "rolling"},
     devs \in {<<"s1">>, <<"s2">>, <<"s1", "s2">>, <<"s2", "s1">>},
     dry \in BOOLEAN}

\* <job_id>.json appears in queue/pending
PlaceJobFile ==
  /\ Cardinality(Created) < plan.jobs
  /\ \E c \in JobFileContents :
       LET j == FreshJobId IN
       /\ jobData' = [jobData EXCEPT ![j] = NewJob(c[1], c[2], c[3])]
       /\ queue' = [queue EXCEPT !["pending"] = @ \cup {j}]
  /\ written' = <<>>
  /\ UNCHANGED <<envVars, cmdVars, sub, running, starts, cancelVars, softwareCheckDone,
                 workQueue, task, statusFile, devVars>>

InitDispatch ==
  /\ InitState
  /\ plan \in DispatchPlans

NextDispatch ==
  \/ PlaceJobFile
  \/ DaemonStart
  \/ \E j \in JobIds : ScanJob(j)
  \/ \E w \in Workers : WorkerTake(w)
  \/ \E w \in Workers : Identify(w)
  \/ \E w \in Workers : Preflight(w)
  \/ \E w \in Workers : Download(w)
  \/ \E w \in Workers : VerifyInstall(w)
  \/ \E w \in Workers : Reboot(w)
  \/ \E w \in Workers : Postflight(w)
  \/ \E w \in Workers : HaInit(w)
  \/ \E w \in Workers : HaBetween(w)
  \/ \E w \in Workers : DoIdentify(w)
  \/ \E w \in Workers : DoDownload(w)
  \/ \E w \in Workers : Completion(w)

SpecDispatch == InitDispatch /\ [][NextDispatch]_vars

\* ----------------------------------- more work items than worker threads
\* The operator's plan: two job files that each list both devices for a
\* dry-run standalone upgrade (four work items for the two worker threads),
\* one daemon start, no cancel.
WorkersPlans ==
  { [inventory |-> Inventory, retry_attempts |-> 1, jobs |-> 2, cancels |-> 0, starts |-> 1,
     reports |-> SteadyReports, queue_size |-> QueueSize, requests |-> {}] }

\* <job_id>.json of such a job appears in queue/pending
PlaceBatchFile ==
  /\ Cardinality(Created) < plan.jobs
  /\ \E c \in {x \in JobFileContents :
                  x[1] = JOB_TYPE_STANDALONE /\ Len(x[2]) = 2 /\ x[3]} :
       LET j == FreshJobId IN
       /\ jobData' = [jobData EXCEPT ![j] = NewJob(c[1], c[2], c[3])]
       /\ queue' = [queue EXCEPT !["pending"] = @ \cup {j}]
  /\ written' = <<>>
  /\ UNCHANGED <<envVars, cmdVars, sub, running, starts, cancelVars, softwareCheckDone,
                 workQueue, task, statusFile, devVars>>

InitWorkers ==
  /\ InitState
  /\ plan \in WorkersPlans

NextWorkers ==
  \/ PlaceBatchFile
  \/ DaemonStart
  \/ \E j \in JobIds : ScanJob(j)
  \/ \E w \in Workers : WorkerTake(w)
  \/ \E w \in Workers : TaskStep(w)

SpecWorkers == InitWorkers /\ [][NextWorkers]_vars

\* ------------------- the completion handler, one file operation at a time
\* The operator's plan: one job of any kind, a cancel command, one start.
CompletionPlans ==
  { [inventory |-> Inventory, retry_attempts |-> DownloadRetryAttempts, jobs |-> 1, cancels |-> MaxCancels, starts |-> 1, reports |-> SteadyReports,
     queue_size |-> QueueSize, requests |-> SubmitRequests] }

InitCompletion ==
  /\ InitState
  /\ plan \in CompletionPlans

\* _execute_upgrade_with_completion up to job_file.rename(dest_file): the
\* early return when the file is not in active, else the rename
CompletionRename(w) ==
  /\ task[w].pc = "completion"
  /\ LET j == task[w].job
         dest == DestDir(task[w].success, j) IN
       IF j \notin queue["active"]
         THEN /\ UNCHANGED queue
              /\ task' = [task EXCEPT ![w] = IdleTask]
         ELSE /\ queue' = RenameJob(queue, j, "active", dest)
              /\ task' = [task EXCEPT ![w].pc = "completion_stamp"]
  /\ written' = <<>>
  /\ UNCHANGED <<envVars, cmdVars, jobData, sub, running, starts, cancelVars,
                 softwareCheckDone, workQueue, statusFile, devVars>>

\* the rest of _execute_upgrade_with_completion: read_json(dest_file),
\* completed_at and status set, atomic_write_json(dest_file)
CompletionStamp(w) ==
  /\ task[w].pc = "completion_stamp"
  /\ jobData' = [jobData EXCEPT ![task[w].job].completed_at = TRUE,
                   ![task[w].job].status = IF task[w].success THEN "complete" ELSE "failed"]
  /\ task' = [task EXCEPT ![w] = IdleTask]
  /\ written' = <<>>
  /\ UNCHANGED <<envVars, cmdVars, queue, sub, running, starts, cancelVars,
                 softwareCheckDone, workQueue, statusFile, devVars>>

NextCompletion ==
  \/ \E p \in Submitters : SubmitCheck(p)
  \/ \E p \in Submitters : SubmitWrite(p)
  \/ DropCancel
  \/ \E c \in CmdIds : ProcessCommand(c)
  \/ DaemonStart
  \/ \E j \in JobIds : ScanJob(j)
  \/ \E w \in Workers : WorkerTake(w)
  \/ \E w \in Workers : Identify(w)
  \/ \E w \in Workers : Preflight(w)
  \/ \E w \in Workers : Download(w)
  \/ \E w \in Workers : VerifyInstall(w)
  \/ \E w \in Workers : Reboot(w)
  \/ \E w \in Workers : Postflight(w)
  \/ \E w \in Workers : HaInit(w)
  \/ \E w \in Workers : HaBetween(w)
  \/ \E w \in Workers : DoIdentify(w)
  \/ \E w \in Workers : DoDownload(w)
  \/ \E w \in Workers : CompletionRename(w)
  \/ \E w \in Workers : CompletionStamp(w)

SpecCompletion == InitCompletion /\ [][NextCompletion]_vars

\* --------------------------------------- atomic_write_json and read_json
\* everything but the file system of the one file
mainVarsButPoll == <<queue, jobData, sub, incoming, processed, cmdData, running, starts,
                     cancelledJobs, cancelledDevices, softwareCheckDone, workQueue, task,
                     statusFile, written, devVersion, devImages, invVersion,
                     preFlightFiles, intakeVars, submitResults, oldCmds, plan>>

mainVars == <<mainVarsButPoll, poll, auxVars>>

\* a write that opens the file itself for writing
WriteInPlace(k) == linked

\* the inode writer k writes to: the file mkstemp created for it
TempInode(k) == k

\* tempfile.mkstemp(dir = file_path.parent): a new, empty file
AtomicWriteMkstemp(k) ==
  /\ wr[k] = "idle"
  /\ inode' = [inode EXCEPT ![TempInode(k)] = <<>>]
  /\ wr' = [wr EXCEPT ![k] = "dump"]
  /\ UNCHANGED <<mainVars, linked, rd>>

\* json.dump, flush, fsync: the content reaches the file piece by piece
AtomicWriteDump(k) ==
  /\ wr[k] = "dump"
  /\ LET c == inode[TempInode(k)]
         c2 == Append(c, ContentOf(k)[Len(c) + 1])
     IN /\ inode' = [inode EXCEPT ![TempInode(k)] = c2]
        /\ wr' = [wr EXCEPT ![k] = IF Len(c2) = Len(ContentOf(k)) THEN "replace" ELSE "dump"]
  /\ UNCHANGED <<mainVars, linked, rd>>

\* os.replace(temp_path, file_path)
AtomicWriteReplace(k) ==
  /\ wr[k] = "replace"
  /\ linked' = TempInode(k)
  /\ wr' = [wr EXCEPT ![k] = "done"]
  /\ UNCHANGED <<mainVars, inode, rd>>

\* an exception while writing: os.unlink(temp_path), re-raise
AtomicWriteFail(k) ==
  /\ wr[k] = "dump"
  /\ TempInode(k) # linked
  /\ inode' = [inode EXCEPT ![TempInode(k)] = NoInode]
  /\ wr' = [wr EXCEPT ![k] = "failed"]
  /\ UNCHANGED <<mainVars, linked, rd>>

\* read_json: open(file_path, 'r')
ReadJsonOpen ==
  /\ rd.pc = "idle"
  /\ rd' = [pc |-> "read", ino |-> linked, got |-> <<>>]
  /\ UNCHANGED <<mainVars, inode, linked, wr>>

\* read_json: json.load reads the open file to its end, piece by piece
ReadJsonRead ==
  /\ rd.pc = "read"
  /\ LET c == inode[rd.ino] IN
       IF Len(rd.got) < Len(c)
         THEN rd' = [rd EXCEPT !.got = Append(@, c[Len(rd.got) + 1])]
         ELSE rd' = [rd EXCEPT !.pc = "done"]
  /\ UNCHANGED <<mainVars, inode, linked, wr>>

InitFile ==
  /\ InitState
  /\ plan \in IntakePlans

NextFile ==
  \/ \E k \in Writers : AtomicWriteMkstemp(k)
  \/ \E k \in Writers : AtomicWriteDump(k)
  \/ \E k \in Writers : AtomicWriteReplace(k)
  \/ \E k \in Writers : AtomicWriteFail(k)
  \/ ReadJsonOpen
  \/ ReadJsonRead

SpecFile == InitFile /\ [][NextFile]_vars

\* ------------------------------- wait_for_download and wait_for_install
\* Time is counted in poll intervals (poll_interval = 10 s): PollTimeout is
\* the timeout argument, poll.elapsed is time.time() - start_time.
\* Ghost fields: report (the latest answer), sawError, best (the highest
\* progress the device has reported, 0 at the start), advancedAt (when the
\* device reported it), cbArg (the value of the latest progress_callback
\* call, -1 before the first) and cbPrev (the value of the call before it).
pollRest == <<mainVarsButPoll, fileVars, auxVars>>

ProgressStrings == {"", "0", "25", "50", "75", "100"}

\* int(progress_str), 0 when that raises ValueError
ParseProgress(str) ==
  CASE str = "0" -> 0
    [] str = "25" -> 25
    [] str = "50" -> 50
    [] str = "75" -> 75
    [] str = "100" -> 100
    [] OTHER -> 0

\* what check_job_status gives: it raises, or it returns status, result and
\* progress as the device sent them
JobReports ==
  {[kind |-> "raise", status |-> "", result |-> "", progress |-> ""]}
    \cup [kind : {"reply"}, status : {"PEND", "ACT", "FIN", "UNKNOWN"},
          result : {"OK", "FAIL", "PEND"}, progress : ProgressStrings]

\* a poller that takes a failed status query for a failed job
FailOnQueryError(r) ==
  IF r.kind = "raise" THEN "failure"
  ELSE IF r.status = "FIN" THEN (IF r.result = "OK" THEN "success" ELSE "failure")
  ELSE "sleep"

\* one iteration of the while loop after check_job_status: return True,
\* return False, or sleep and poll again
PollOutcome(r) ==
  IF r.kind = "raise" THEN "sleep"
  ELSE IF r.status = "FIN" THEN (IF r.result = "OK" THEN "success" ELSE "failure")
  ELSE "sleep"

\* start_time = time.time(); last_progress = -1
WaitStart ==
  /\ poll.pc = "idle"
  /\ poll' = [IdlePoll EXCEPT !.pc = "wait"]
  /\ UNCHANGED pollRest

\* one iteration of the loop: the status query, the progress callback when
\* the progress differs from the last one, then the return or the sleep
WaitPoll ==
  /\ poll.pc = "wait"
  /\ poll.elapsed < PollTimeout
  /\ \E r \in JobReports :
       LET progress == ParseProgress(r.progress)
           p1 == [poll EXCEPT !.report = r,
                    !.sawError = @ \/ r.kind = "raise",
                    !.last_progress = IF r.kind = "reply" THEN progress ELSE @,
                    !.cbPrev = IF r.kind = "reply" /\ progress # poll.last_progress
                                 THEN poll.last_progress ELSE @,
                    !.cbArg = IF r.kind = "reply" /\ progress # poll.last_progress
                                THEN progress ELSE @,
                    !.best = IF r.kind = "reply" /\ progress > @ THEN progress ELSE @,
                    !.advancedAt = IF r.kind = "reply" /\ progress > poll.best
                                     THEN poll.elapsed ELSE @]
           out == PollOutcome(r)
       IN poll' = CASE out = "success" -> [p1 EXCEPT !.pc = "returned", !.ret = TRUE,
                                                     !.cause = "finished"]
                    [] out = "failure" -> [p1 EXCEPT !.pc = "returned", !.ret = FALSE,
                                                     !.cause = "finished"]
                    [] OTHER -> [p1 EXCEPT !.elapsed = @ + 1]
  /\ UNCHANGED pollRest

\* the loop condition fails: "did not complete within timeout seconds"
WaitTimeout ==
  /\ poll.pc = "wait"
  /\ poll.elapsed >= PollTimeout
  /\ poll' = [poll EXCEPT !.pc = "returned", !.ret = FALSE, !.cause = "timeout"]
  /\ UNCHANGED pollRest

InitPoller ==
  /\ InitState
  /\ plan \in IntakePlans

NextPoller ==
  \/ WaitStart
  \/ WaitPoll
  \/ WaitTimeout

SpecPoller == InitPoller /\ [][NextPoller]_vars

\* ------------------------------------------ post-flight metric comparison
\* One pre-flight snapshot of a device and the post-flight validation that
\* compares against it. Routes and ARP entries are kept as their counts
\* (route_count = len(routes), arp_count = len(arp_entries)).
cmpRest == <<mainVarsButPoll, fileVars, poll, bucket, caller>>

\* num-active of "show session info" before and after the upgrade
TcpSessionCounts == {0, 19, 20, 21, 22, 100, 105, 106}
EntryCounts == 0..MaxCount

\* what get_system_metrics can return
SystemMetrics == [tcp_sessions : TcpSessionCounts, route_count : EntryCounts,
                  arp_count : EntryCounts]

\* validation.tcp_session_margin (percent), validation.route_margin and
\* validation.arp_margin (absolute) of the configuration
MarginConfigs == [tcp_session_margin : {0, 5}, route_margin : {0, 1}, arp_margin : {0, 1}]

Abs(x) == IF x < 0 THEN -x ELSE x

\* abs(tcp_pct) <= tcp_margin with tcp_pct = tcp_diff / pre.tcp_sessions * 100
\* when pre.tcp_sessions > 0, else 0; the quotient is taken exactly
TcpWithinMargin(pre, post, margin) ==
  IF pre > 0 THEN Abs(post - pre) * 100 <= margin * pre
  ELSE 0 <= margin

\* _compare_metrics
CompareMetrics(pre, post, margins) ==
  [tcp_sessions |->
     [difference |-> post.tcp_sessions - pre.tcp_sessions,
      within_margin |-> TcpWithinMargin(pre.tcp_sessions, post.tcp_sessions,
                                        margins.tcp_session_margin)],
   routes |->
     [difference |-> post.route_count - pre.route_count,
      within_margin |-> Abs(post.route_count - pre.route_count) <= margins.route_margin],
   arp_entries |->
     [difference |-> post.arp_count - pre.arp_count,
      within_margin |-> Abs(post.arp_count - pre.arp_count) <= margins.arp_margin]]

\* validation_passed = all(comp.within_margin for comp in comparison.values())
ValidationPassed(comparison) ==
  /\ comparison.tcp_sessions.within_margin
  /\ comparison.routes.within_margin
  /\ comparison.arp_entries.within_margin

\* run_pre_flight_validation_direct with the configuration in force: the
\* snapshot that the post-flight validation is given
PreFlightSnapshot ==
  /\ cmp.pc = "idle"
  /\ \E m \in MarginConfigs : \E pre \in SystemMetrics :
       cmp' = [cmp EXCEPT !.pc = "pre_flight", !.margins = m, !.pre = pre]
  /\ UNCHANGED cmpRest

\* run_post_flight_validation_direct: the metrics are fetched and compared,
\* or every attempt to fetch them raised
PostFlightValidation ==
  /\ cmp.pc = "pre_flight"
  /\ \/ \E post \in SystemMetrics :
          LET comparison == CompareMetrics(cmp.pre, post, cmp.margins) IN
          cmp' = [cmp EXCEPT !.pc = "compared", !.post = post,
                             !.comparison = comparison,
                             !.validation_passed = ValidationPassed(comparison)]
     \/ cmp' = [cmp EXCEPT !.pc = "exhausted", !.validation_passed = FALSE]
  /\ UNCHANGED cmpRest

InitCompare ==
  /\ InitState
  /\ plan \in IntakePlans

NextCompare ==
  \/ PreFlightSnapshot
  \/ PostFlightValidation

SpecCompare == InitCompare /\ [][NextCompare]_vars

\* --------------------------------------------------------- RateLimiter
\* Two threads call acquire on the one limiter of the daemon. time.time()
\* is bucket.clock (seconds, never going back); the refill
\* elapsed * requests_per_minute / 60.0 is elapsed * RateLimit sixtieths of
\* a token. Ghost field: caller[th].taken, the tokens the call took away.
limiterRest == <<mainVarsButPoll, fileVars, poll, cmp>>

\* the seconds that pass between two looks at the clock
ClockSteps == {3, 6}

Min(a, b) == IF a < b THEN a ELSE b

\* min(requests_per_minute, tokens + elapsed * requests_per_minute / 60.0)
Refilled(tokens, elapsed) ==
  Min(RateLimit * TokenUnit, tokens + elapsed * RateLimit)

\* time passes
ClockTick ==
  /\ bucket.clock < MaxClock
  /\ \E d \in ClockSteps : bucket' = [bucket EXCEPT !.clock = @ + d]
  /\ UNCHANGED <<caller, limiterRest>>

\* a thread calls acquire(blocking)
AcquireCall(th) ==
  /\ caller[th].pc \in {"idle", "returned"}
  /\ \E b \in BOOLEAN :
       caller' = [caller EXCEPT ![th] = [IdleCaller EXCEPT !.pc = "enter", !.blocking = b]]
  /\ UNCHANGED <<bucket, limiterRest>>

\* with self.lock: the lock is taken
LockEnter(th) ==
  /\ caller[th].pc = "enter"
  /\ bucket.lock = ""
  /\ bucket' = [bucket EXCEPT !.lock = th]
  /\ caller' = [caller EXCEPT ![th].pc = "refill"]
  /\ UNCHANGED limiterRest

\* now = time.time() ... self.last_update = now
Refill(th) ==
  /\ caller[th].pc = "refill"
  /\ bucket' = [bucket EXCEPT !.tokens = Refilled(@, bucket.clock - bucket.last_update),
                              !.last_update = bucket.clock]
  /\ caller' = [caller EXCEPT ![th].pc = "take"]
  /\ UNCHANGED limiterRest

\* the rest of the locked block: a token is taken and True returned, or
\* False is returned, or the lock is left for the sleep
Take(th) ==
  /\ caller[th].pc = "take"
  /\ IF bucket.tokens >= 1 * TokenUnit
       THEN /\ bucket' = [bucket EXCEPT !.tokens = @ - 1 * TokenUnit, !.lock = ""]
            /\ caller' = [caller EXCEPT ![th].pc = "returned", ![th].ret = TRUE,
                                        ![th].taken = 1 * TokenUnit]
       ELSE /\ bucket' = [bucket EXCEPT !.lock = ""]
            /\ caller' = [caller EXCEPT ![th].pc = IF caller[th].blocking
                                                     THEN "sleep" ELSE "returned",
                                        ![th].ret = FALSE]
  /\ UNCHANGED limiterRest

\* time.sleep(0.1) is over
SleepEnd(th) ==
  /\ caller[th].pc = "sleep"
  /\ caller' = [caller EXCEPT ![th].pc = "enter"]
  /\ UNCHANGED <<bucket, limiterRest>>

InitLimiter ==
  /\ InitState
  /\ plan \in IntakePlans

NextLimiter ==
  \/ ClockTick
  \/ \E th \in Callers : AcquireCall(th)
  \/ \E th \in Callers : LockEnter(th)
  \/ \E th \in Callers : Refill(th)
  \/ \E th \in Callers : Take(th)
  \/ \E th \in Callers : SleepEnd(th)

SpecLimiter == InitLimiter /\ [][NextLimiter]_vars

\* ---------------------------------------------------------------- claims

\* C1: every job file ever written is in exactly one of queue/pending,
\* queue/active, queue/completed, queue/cancelled, whatever the scanner and
\* the completion handlers are doing; a name never written is in none.
C1_ExactlyOneDirectory ==
  /\ \A j \in Created : Cardinality({d \in QueueDirs : j \in queue[d]}) = 1
  /\ \A j \in JobIds \ Created : \A d \in QueueDirs : j \notin queue[d]

\* one job has been moved out of active by a completion handler while another
\* one, moved in by the scanner, is still active
C1_Witness ==
  \E j \in queue["completed"] \cup queue["cancelled"] : \E k \in queue["active"] : j # k

\* C2: for every serial at most one job file in queue/pending or queue/active
\* lists it, also when two submitters check and then write concurrently.
C2_AtMostOneNonTerminalJob ==
  \A s \in Serials : Cardinality(JobsReferencing(s)) <= 1

\* C3: when a task has observed the cancel flag at a checkpoint and returns,
\* the last DeviceStatus it persisted has upgrade_status = cancelled.
C3_CancelledIsFinalStatus ==
  \A w \in Workers :
    (task[w].pc = "completion" /\ task[w].sawCancel /\ written # <<>>)
      => Last(written).upgrade_status = "cancelled"

\* C4: once the downloads are over, a task whose job or device is in the
\* cancel set issues no further device command (no install_start, no
\* reboot_start).
C4_NoCommandAfterCancel ==
  [][\A w \in Workers :
       (task[w].pc \in {"verify", "reboot"} /\ IsCancelled(task[w].job, task[w].serial))
         => Len(task'[w].cmds) <= Len(task[w].cmds)]_vars

\* C5: when a task that observed a cancel (of its job_id or of its
\* device_serial) ends, its job file leaves queue/active for queue/cancelled.
C5_CancelledJobFileMoved ==
  [][\A w \in Workers :
       (task[w].pc = "completion" /\ task[w].sawCancel
          /\ task[w].job \in queue["active"] /\ task[w].job \notin queue'["active"])
         => task[w].job \in queue'["cancelled"]]_vars

\* C6: in an HA-pair job, while the active member is being upgraded the
\* member called passive really is the passive one and its upgrade has
\* returned success, or was skipped because it was already at the pair's
\* target version.
C6_PassiveBeforeActive ==
  \A w \in Workers :
    (task[w].func = "upgrade_ha_pair" /\ task[w].member = "active")
      => /\ HaLocalState[task[w].passive] = "passive"
         /\ task[w].passiveResult \in {"complete", "noop"}
         /\ task[w].passiveResult = "noop" => devVersion[task[w].passive] = task[w].target

\* an HA-pair job returns success after the passive member and then the
\* active member were both upgraded
C6_Witness ==
  \E w \in Workers :
    /\ task[w].func = "upgrade_ha_pair" /\ task[w].member = "active"
    /\ task[w].passiveResult = "complete"
    /\ task[w].pc = "completion" /\ task[w].success

\* C7: in one upgrade, install_start is issued at most once, for the last
\* version of the path, with every version of the path downloaded on the
\* device, and reboot_start only after it; when verification finds a version
\* missing the device status becomes failed and no command is issued.
C7_InstallOnceLastVerified ==
  [][\A w \in Workers :
       LET t == task'[w]
           installs == {i \in 1..Len(t.cmds) : t.cmds[i][1] = "install_start"}
           reboots == {i \in 1..Len(t.cmds) : t.cmds[i][1] = "reboot_start"}
       IN /\ Cardinality(installs) <= 1
          /\ \A i \in installs :
               /\ t.cmds[i][2] = Last(t.ds.upgrade_path)
               /\ SeqSet(t.ds.upgrade_path) \subseteq devImages'[t.serial]
          /\ \A i \in reboots : \E k \in installs : k < i
          /\ (/\ task[w].pc = "verify" /\ ~task[w].dry_run
              /\ SeqSet(task[w].ds.upgrade_path) \ devImages[task[w].serial] # {}
              /\ t # task[w] /\ running')
               => /\ t.cmds = task[w].cmds
                  /\ t.pc = "completion" /\ ~t.success
                  /\ statusFile'[t.serial].upgrade_status = "failed"]_vars

\* an upgrade over a path of two versions has issued install_start for the
\* last one
C7_Witness ==
  \E w \in Workers :
    /\ Len(task[w].ds.upgrade_path) = 2
    /\ <<"install_start", "v3">> \in SeqSet(task[w].cmds)

\* C8: every DeviceStatus written with upgrade_status = complete, and every
\* status file that says complete, has current_version = target_version.
C8_CompleteAtTarget ==
  /\ \A i \in 1..Len(written) :
       written[i].upgrade_status = "complete"
         => written[i].current_version = written[i].target_version
  /\ \A s \in Serials :
       statusFile[s].upgrade_status = "complete"
         => statusFile[s].current_version = statusFile[s].target_version

\* a real upgrade has just written complete
C8_Witness ==
  /\ written # <<>>
  /\ Last(written).upgrade_status = "complete"
  /\ devVersion[Last(written).serial] = Last(written).target_version

\* C9: a task that identified its device at the target version does not go
\* on to pre-flight (it ends complete at once).
C9_AtTargetCompletesAtOnce ==
  \A w \in Workers :
    task[w].pc = "preflight" => task[w].ds.current_version # task[w].ds.target_version

\* C10: a daemon start leaves every job of queue/active with a work item in
\* the worker pool.
C10_ActiveResubmittedOnStart ==
  [][(~running /\ running')
       => \A j \in queue'["active"] :
            \E i \in 1..Len(workQueue') : workQueue'[i].job = j]_vars

C12_ResumeReentersDownloading ==
  [][\A w \in Workers :
       (task[w].resumedFrom = "downloading" /\ task'[w] # task[w])
         => \A i \in 1..Len(written') :
              written'[i].upgrade_status \notin {"pending", "validating"}]_vars

\* C13: after a task has written a DeviceStatus with a terminal
\* upgrade_status, its later writes of that DeviceStatus change nothing.
C13_TerminalStopsMutation ==
  \A i \in 1..Len(written) : \A k \in (i+1)..Len(written) :
    (written[i].upgrade_status \in TerminalStatuses /\ written[k].serial = written[i].serial)
      => written[k] = written[i]

\* C14: of two consecutive writes of a DeviceStatus made by one step with the
\* same current_phase, the later never has the lower progress.
C14_ProgressMonotoneInPhase ==
  \A i \in 2..Len(written) :
    written[i].current_phase = written[i-1].current_phase
      => written[i].progress >= written[i-1].progress


C17_DryRunInvokesNothing ==
  \A w \in Workers : task[w].dry_run => task[w].cmds = <<>>


\* C18: a download-only task issues neither install_start nor reboot_start,
\* and when it has written download_complete with ready_for_install, every
\* version of the path is downloaded on the device (what verify-all
\* establishes in a full upgrade)
C18_DownloadOnlyIsTruncatedUpgrade ==
  \A w \in Workers :
    (task[w].func = "download_only_device" /\ ~task[w].dry_run) =>
      /\ \A i \in 1..Len(task[w].cmds) :
            task[w].cmds[i][1] \notin {"install_start", "reboot_start"}
      /\ (task[w].ds.upgrade_status = STATUS_DOWNLOAD_COMPLETE
            /\ task[w].ds.ready_for_install)
           => SeqSet(task[w].ds.upgrade_path) \subseteq devImages[task[w].serial]


\* C19: the scanner moves a job file from pending to active (and submits its
\* worker tasks) only for a job it has not moved before, also when the same
\* job file is placed in pending again
C19_JobFileActivatedOnce ==
  [][\A j \in JobIds :
       (j \in queue["pending"] /\ j \notin queue'["pending"])
         => /\ j \notin queue["active"] \cup queue["completed"] \cup queue["cancelled"]
            /\ \A w \in Workers : task[w].job # j]_vars


\* C20: _handle_cancel_command runs at most once for a command file, also
\* when the startup scan and the on_created handler both see the file
C20_CommandConsumedOnce ==
  \A c \in CmdIds : handled[c] <= 1


C22_ReaderSeesWholeContent ==
  rd.pc = "done" => rd.got \in {ContentOf(0)} \cup {ContentOf(k) : k \in Writers}

C22_Witness ==
  /\ rd.pc = "done"
  /\ rd.got = ContentOf(1)
  /\ wr[2] = "done"
  /\ linked = TempInode(2)


\* C23: for every in-progress DeviceStatus that _save_device_status has
\* written, _load_existing_device_status yields from the saved data a
\* DeviceStatus equal to the saved one in every field
C23_SaveLoadIdentity ==
  \A i \in 1..Len(written) :
    (/\ written[i].upgrade_status \in InProgressStatuses
     /\ written[i].starting_version # "")
      => ReconstructDeviceStatus(written[i]) = written[i]


\* C24: every job file in queue/completed or queue/cancelled carries status
\* and completed_at
C24_DoneJobsAreStamped ==
  \A j \in queue["completed"] \cup queue["cancelled"] :
    /\ jobData[j].completed_at
    /\ jobData[j].status # ""


C26_StallTimeoutExact ==
  /\ (poll.pc = "returned" /\ poll.cause = "timeout")
       => poll.elapsed - poll.advancedAt >= PollTimeout
  /\ poll.pc = "wait" => poll.elapsed - poll.advancedAt <= PollTimeout


\* C27: a job file that is in queue/active is eventually in queue/completed
\* or queue/cancelled, given that the scanner and the workers keep running
\* and every started work function returns
C27_ActiveJobEventuallyDone ==
  \A j \in JobIds :
    (j \in queue["active"]) ~> (j \in queue["completed"] \cup queue["cancelled"])


\* C28: a job file whose type is not one of the three job types, or whose
\* device count does not fit its type (2 for ha_pair, 1 otherwise), stays in
\* queue/pending and no work item is submitted for it
C28_InvalidJobNotActivated ==
  \A j \in Created :
    LET jd == jobData[j]
        fits == \/ jd.type = JOB_TYPE_HA_PAIR /\ Len(jd.devices) = 2
                \/ jd.type \in {JOB_TYPE_STANDALONE, JOB_TYPE_DOWNLOAD_ONLY}
                     /\ Len(jd.devices) = 1
    IN ~fits => /\ j \in queue["pending"]
                /\ \A i \in 1..Len(workQueue) : workQueue[i].job # j
                /\ \A w \in Workers : task[w].job # j


\* C29: while every serial is listed by at most one job file in
\* queue/pending and queue/active and every job file has the device count
\* of its type, no two worker threads are inside a work function for the
\* same serial (so no two write the same DeviceStatus file)
C29_OneTaskPerSerial ==
  LET shaped == \A j \in Created :
                  Len(jobData[j].devices) =
                    IF jobData[j].type = JOB_TYPE_HA_PAIR THEN 2 ELSE 1
      lists(dir, s) == {j \in queue[dir] : s \in SeqSet(jobData[j].devices)}
      single == \A s \in Serials :
                  Cardinality(lists("pending", s)) + Cardinality(lists("active", s)) <= 1
      serialsOf(w) == IF task[w].pc = "idle" THEN {}
                      ELSE {task[w].serial, task[w].primary, task[w].secondary} \ {""}
  IN (shaped /\ single) =>
       \A w1, w2 \in Workers : w1 # w2 => serialsOf(w1) \cap serialsOf(w2) = {}

C29_Witness ==
  /\ jobData[1].devices = <<"s1">>
  /\ jobData[2].devices = <<"s2">>
  /\ task["w1"].pc \notin {"idle", "completion"}
  /\ task["w2"].pc \notin {"idle", "completion"}
  /\ task["w1"].serial = "s1"
  /\ task["w2"].serial = "s2"
  /\ queue["active"] = {1, 2}


\* C30: in a task run that did not resume a saved status, the successive
\* values of a device's upgrade_status (the one in memory before a step and
\* every one the step saves) never go back in the order pending, validating,
\* downloading, installing, rebooting, complete; failed, cancelled and
\* skipped come after all of them
C30_StatusOrder ==
  [][\A w \in Workers :
       LET t == task[w]
           rank(st) == CASE st = "pending" -> 0
                         [] st = "validating" -> 1
                         [] st = "downloading" -> 2
                         [] st = "installing" -> 3
                         [] st = "rebooting" -> 4
                         [] st \in {"complete", STATUS_DOWNLOAD_COMPLETE} -> 5
                         [] OTHER -> 6
       IN (/\ written' # <<>>
           /\ t.pc # "idle"
           /\ task'[w].resumedFrom = ""
           /\ task'[w] # t)
            => /\ (t.ds.serial = written'[1].serial
                     /\ t.pc \notin {"identify", "do_identify"})
                    => rank(t.ds.upgrade_status) <= rank(written'[1].upgrade_status)
               /\ \A i \in 1..(Len(written') - 1) :
                    written'[i].serial = written'[i + 1].serial
                      => rank(written'[i].upgrade_status)
                           <= rank(written'[i + 1].upgrade_status)]_vars

C30_Witness ==
  \E w \in Workers :
    /\ task[w].pc = "completion"
    /\ task[w].resumedFrom = ""
    /\ task[w].ds.upgrade_status = "complete"
    /\ \E i \in 1..Len(task[w].cmds) : task[w].cmds[i][1] = "reboot_start"
    /\ Len(written) >= 2
    /\ written[1].upgrade_status = "rebooting"


C32_HaPairSingleTarget ==
  \A w \in Workers :
    LET t == task[w]
        p == statusFile[t.primary]
        q == statusFile[t.secondary]
    IN (/\ t.func = "upgrade_ha_pair"
        /\ t.pc = "completion"
        /\ t.success
        /\ ~t.dry_run
        /\ (p.exists \/ q.exists))
         => /\ p.exists /\ q.exists
            /\ p.target_version = q.target_version
            /\ p.current_version = p.target_version
            /\ q.current_version = q.target_version


\* C33: when a work function has returned and a serial of its work item is
\* not in the inventory, that serial's DeviceStatus file says failed with an
\* error of phase init, and the task has issued no device operation
C33_MissingInventoryFailsInit ==
  \A w \in Workers :
    LET t == task[w] IN
    t.pc = "completion" =>
      \A s \in ({t.primary, t.secondary} \ {""}) \ plan.inventory :
        /\ statusFile[s].exists
        /\ statusFile[s].upgrade_status = "failed"
        /\ "init" \in SeqSet(statusFile[s].errors)
        /\ t.cmds = <<>>


\* C34: the progress callback is invoked only with a value strictly greater
\* than the value of its previous invocation, never with an equal or a lower
\* one
C34_ProgressCallbackIncreases ==
  poll.cbArg # -1 => poll.cbArg > poll.cbPrev


\* C35: in the post-flight comparison tcp_sessions is within margin exactly
\* when its change is at most tcp_session_margin percent of the pre-flight
\* value, routes and ARP entries exactly when the absolute difference of
\* the counts is at most their margin, and the validation passes exactly
\* when all three are within margin
C35_MarginsDecidePostFlight ==
  cmp.pc = "compared" =>
    LET c == cmp.comparison
        m == cmp.margins
    IN /\ c.tcp_sessions.within_margin
            <=> (Abs(cmp.post.tcp_sessions - cmp.pre.tcp_sessions) * 100
                   <= m.tcp_session_margin * cmp.pre.tcp_sessions)
       /\ c.routes.within_margin
            <=> (Abs(cmp.post.route_count - cmp.pre.route_count) <= m.route_margin)
       /\ c.arp_entries.within_margin
            <=> (Abs(cmp.post.arp_count - cmp.pre.arp_count) <= m.arp_margin)
       /\ cmp.validation_passed
            <=> (c.tcp_sessions.within_margin /\ c.routes.within_margin
                   /\ c.arp_entries.within_margin)


\* C36: the bucket never holds more than requests_per_minute / 60 tokens
\* nor fewer than 0, and an acquire that returned True took exactly one
\* token, whatever the interleaving of the callers
C36_BucketWithinCapacity ==
  /\ bucket.tokens >= 0
  /\ bucket.tokens * 60 <= RateLimit * TokenUnit
  /\ \A th \in Callers :
       (caller[th].pc = "returned" /\ caller[th].ret) => caller[th].taken = 1 * TokenUnit


\* C37: a task that finds its upgrade cancelled was named, by its job or by
\* one of its devices, in a cancel command processed after its job was
\* submitted: a command processed before that does not cancel it
C37_CancelOnlyCurrentWork ==
  \A w \in Workers :
    LET t == task[w] IN
    (t.pc # "idle" /\ t.sawCancel) =>
      \E c \in processed \ oldCmds[t.job] :
        \/ cmdData[c].job_id = t.job
        \/ cmdData[c].device_serial \in SeqSet(jobData[t.job].devices)


\* C38: a DeviceStatus written with upgrade_status failed carries at least
\* one error record, the one of the phase that failed
C38_FailedStatusHasError ==
  \A i \in 1..Len(written) :
    written[i].upgrade_status = "failed" => written[i].errors # <<>>


\* C39: in every persisted DeviceStatus downloaded_versions and
\* skipped_versions have no version in common, list no version twice and
\* list only versions of upgrade_path, also when the task resumed from a
\* persisted status
C39_VersionListsConsistent ==
  \A s \in Serials :
    LET d == statusFile[s]
        dl == d.downloaded_versions
        sk == d.skipped_versions
    IN d.exists =>
         /\ SeqSet(dl) \cap SeqSet(sk) = {}
         /\ Cardinality(SeqSet(dl)) = Len(dl)
         /\ Cardinality(SeqSet(sk)) = Len(sk)
         /\ SeqSet(dl) \cup SeqSet(sk) \subseteq SeqSet(d.upgrade_path)


====
